---- MODULE Spec2Model ----
(***************************************************************************)
(* Legacy-IP-Suite: the transform / migrate pipeline of etl/migrate.py.    *)
(*                                                                         *)
(* Identifiers (client_id, patent_id, ...) are sequences of characters so  *)
(* that str.strip() is a real conversion.  The scalar columns of a row     *)
(* that no orchestration step inspects (name, email, title, dates, ...)    *)
(* are carried as one opaque `payload` value.                              *)
(***************************************************************************)
EXTENDS Integers, Sequences, FiniteSets, TLC

\* ------------------------------------------------------------------ bounds
MaxRuns == 2
MaxRows == 2
TicksPerSecond == 2

\* ----------------------------------------------------------- basic values
\* dict.get(k) / Series.map(dict) on a missing key: None / NaN.
NULL == 0

\* A missing CSV cell as read by pandas.read_csv.
NaN == "NaN"

Max(S) == CHOOSE m \in S : \A x \in S : x <= m

PosSeqs(S, n) == UNION {[1..k -> S] : k \in 1..n}

\* str.strip(): drops leading and trailing blanks.
RECURSIVE LStrip(_)
LStrip(s) == IF s = <<>> THEN s ELSE IF Head(s) = " " THEN LStrip(Tail(s)) ELSE s

RECURSIVE RStrip(_)
RStrip(s) ==
    IF s = <<>> THEN s
    ELSE IF s[Len(s)] = " " THEN RStrip(SubSeq(s, 1, Len(s) - 1)) ELSE s

Strip(s) == RStrip(LStrip(s))

\* str.lower() over the related_type vocabulary of the model; a missing
\* cell stays missing.
Lower(s) == CASE s = "Patent" -> "patent"
              [] s = "TRADEMARK" -> "trademark"
              [] s = "Pending" -> "pending"
              [] s = "A@B.co" -> "a@b.co"
              [] OTHER -> s

\* dict lookup that yields None for a missing key.
Get(map, k) == IF k \in DOMAIN map THEN map[k] ELSE NULL

\* ------------------------------------------------------------- transforms
\* DataFrame.drop_duplicates(subset=["external_ref"]): pandas keeps the
\* first occurrence of every key, in order.
KeptIdx(rows) ==
    {i \in 1..Len(rows) : \A j \in 1..(i - 1) : rows[j].external_ref # rows[i].external_ref}

RECURSIVE SubSeqByIdx(_, _, _)
SubSeqByIdx(rows, keep, i) ==
    IF i > Len(rows) THEN <<>>
    ELSE (IF i \in keep THEN <<rows[i]>> ELSE <<>>) \o SubSeqByIdx(rows, keep, i + 1)

drop_duplicates(rows) == SubSeqByIdx(rows, KeptIdx(rows), 1)

transform_clients(df) ==
    drop_duplicates([i \in 1..Len(df) |->
        [external_ref |-> Strip(df[i].client_id), payload |-> df[i].payload]])

\* An inner join on the client map: rows without a mapped client are dropped.
transform_patents_InnerJoin(df, client_map) ==
    LET all == [i \in 1..Len(df) |->
                    [external_ref |-> Strip(df[i].patent_id),
                     client_id    |-> Get(client_map, Strip(df[i].client_id)),
                     payload      |-> df[i].payload]]
    IN  SubSeqByIdx(all, {i \in 1..Len(df) : all[i].client_id # NULL}, 1)

transform_patents(df, client_map) ==
    [i \in 1..Len(df) |->
        [external_ref |-> Strip(df[i].patent_id),
         client_id    |-> Get(client_map, Strip(df[i].client_id)),
         payload      |-> df[i].payload]]

transform_trademarks(df, client_map) ==
    [i \in 1..Len(df) |->
        [external_ref |-> Strip(df[i].tm_id),
         client_id    |-> Get(client_map, Strip(df[i].client_id)),
         payload      |-> df[i].payload]]

\* df["related_type"].str: the accessor exists only on a column holding
\* strings; a column whose cells are all missing is read as float64 and
\* the accessor raises AttributeError.
StrAccessorRaises(df) == \A i \in 1..Len(df) : df[i].related_type = NaN

related_table(rtype) == IF Lower(rtype) = "patent" THEN "patents" ELSE "trademarks"

resolve_id(row, patent_map, tm_map) ==
    IF related_table(row.related_type) = "patents"
    THEN Get(patent_map, Strip(row.related_id))
    ELSE Get(tm_map, Strip(row.related_id))

transform_deadlines(df, patent_map, tm_map) ==
    [i \in 1..Len(df) |->
        [external_ref  |-> Strip(df[i].dl_id),
         related_table |-> related_table(df[i].related_type),
         related_id    |-> resolve_id(df[i], patent_map, tm_map),
         payload       |-> df[i].payload]]

\* {ext: i+1 for i, ext in enumerate(tf["external_ref"].tolist())}: a later
\* position overwrites an earlier one for the same key.
EnumerateMap(tf) ==
    [k \in {tf[i].external_ref : i \in 1..Len(tf)} |->
        Max({i \in 1..Len(tf) : tf[i].external_ref = k})]


\* ------------------------------------------------------------ legacy input
Ref(c) == <<c>>

Padded(c) == <<" ", c>>

ClientRow(id, v) == [client_id |-> id, payload |-> v]

PatentRow(id, cl, v) == [patent_id |-> id, client_id |-> cl, payload |-> v]

TmRow(id, cl, v) == [tm_id |-> id, client_id |-> cl, payload |-> v]

DlRow(id, ty, rid, v) == [dl_id |-> id, related_type |-> ty, related_id |-> rid, payload |-> v]

LegacyInput(c, p, t, d) == [clients |-> c, patents |-> p, trademarks |-> t, deadlines |-> d]

\* The four legacy CSV files of one run: every file is present and holds at
\* least one row.
\* Repeated keys with different payloads, a client reference that is in no
\* clients file, mixed-case discriminators.
InputDuplicates ==
    LegacyInput(<<ClientRow(Ref("A"), 1), ClientRow(Padded("A"), 2)>>,
                <<PatentRow(Ref("P"), Ref("A"), 1), PatentRow(Ref("P"), Ref("C"), 2)>>,
                <<TmRow(Ref("T"), Padded("A"), 1)>>,
                <<DlRow(Ref("D"), "Patent", Ref("P"), 1), DlRow(Ref("E"), "TRADEMARK", Ref("T"), 1)>>)

\* A later extract: other payloads, more keys.
InputChanged ==
    LegacyInput(<<ClientRow(Ref("A"), 2), ClientRow(Ref("B"), 1)>>,
                <<PatentRow(Ref("P"), Ref("B"), 1), PatentRow(Ref("Q"), Ref("A"), 1)>>,
                <<TmRow(Ref("T"), Ref("B"), 2)>>,
                <<DlRow(Ref("D"), "trademark", Ref("T"), 2)>>)

\* A deadlines file whose related_type column is blank in every row.
InputBlankType ==
    LegacyInput(<<ClientRow(Ref("A"), 1)>>,
                <<PatentRow(Ref("P"), Ref("A"), 1)>>,
                <<TmRow(Ref("T"), Ref("A"), 1)>>,
                <<DlRow(Ref("D"), NaN, Ref("P"), 1)>>)

Inputs == {InputDuplicates, InputChanged, InputBlankType}

NoInput == LegacyInput(<<>>, <<>>, <<>>, <<>>)

\* ------------------------------------------------------------ target store
Tables == {"clients", "patents", "trademarks", "deadlines"}

EmptyDb == [t \in Tables |-> {}]

\* id SERIAL: the store assigns the next integer to a new row.
NextId(table) == IF table = {} THEN 1 ELSE Max({t.id : t \in table}) + 1

\* A plain INSERT: no conflict target.
upsert_row_InsertOnly(table, rec) == table \cup {[id |-> NextId(table), row |-> rec]}

\* ON CONFLICT (external_ref) DO NOTHING.
upsert_row_DoNothing(table, rec) ==
    IF \E t \in table : t.row.external_ref = rec.external_ref
    THEN table
    ELSE table \cup {[id |-> NextId(table), row |-> rec]}

\* One execution of
\*   INSERT INTO t (...) VALUES (...) ON CONFLICT (external_ref) DO UPDATE SET ...
\* Every non-key column is in the update list of every call.
upsert_row(table, rec) ==
    IF \E t \in table : t.row.external_ref = rec.external_ref
    THEN {IF t.row.external_ref = rec.external_ref THEN [t EXCEPT !.row = rec] ELSE t : t \in table}
    ELSE table \cup {[id |-> NextId(table), row |-> rec]}

\* upsert_dataframe returns (inserted, updated).
upsert_counts(df) == IF Len(df) = 0 THEN <<0, 0>> ELSE <<Len(df), 0>>

\* A map that gives every key the id of one and the same row.
SelectMap_OneId(table) ==
    [k \in {t.row.external_ref : t \in table} |-> (CHOOSE t \in table : TRUE).id]

\* {ext: id for id, ext in conn.execute("SELECT id, external_ref FROM t")}
SelectMap(table) ==
    [k \in {t.row.external_ref : t \in table} |->
        (CHOOSE t \in table : t.row.external_ref = k).id]

EmptyMap == <<>>

\* ------------------------------------------------------------------ state
VARIABLES
    inp,                    \* inp[r]: the files read by invocation r of main()
    proc,                   \* proc[r]: control point and locals of invocation r
    db,                     \* committed content of the four target tables
    migration_runs,         \* committed audit table, indexed by run id
    migration_row_counts,   \* committed audit table, in insertion order
    conn,                   \* the open transaction (owner 0: none) and its view
    clock,                  \* the store's clock
    dry,                    \* the invocation of main() without TARGET_DB_URL
    vld,                    \* the legacy files and the runs of IPMSDataValidator.validate_all
    nz                      \* one call of a normalizer of transform_utils

vars == <<inp, proc, db, migration_runs, migration_row_counts, conn, clock, dry, vld, nz>>

Runs == 1..MaxRuns

NoConn == [owner |-> 0, db |-> EmptyDb, runs |-> <<>>, counts |-> <<>>]

Locals(pc, i, cm, pm, tm) ==
    [pc |-> pc, i |-> i, client_map |-> cm, patent_map |-> pm, tm_map |-> tm]

IdleProc == Locals("idle", 0, EmptyMap, EmptyMap, EmptyMap)

DryIdle ==
    [pc |-> "off", inp |-> NoInput, tf_clients |-> <<>>, tf_patents |-> <<>>,
     tf_tms |-> <<>>, tf_deadlines |-> <<>>, client_map |-> EmptyMap,
     patent_map |-> EmptyMap, tm_map |-> EmptyMap, written |-> {}]

\* No normalizer has been called.
NzIdle == [pc |-> "off", fn |-> "none", arg |-> <<>>, out |-> <<>>]

\* The validator before validate_all is called, over an empty data directory.
AbsentFile == [exists |-> FALSE, readable |-> FALSE, columns |-> {}, rows |-> <<>>]

NoFiles ==
    [clients |-> AbsentFile, patents |-> AbsentFile,
     trademarks |-> AbsentFile, deadlines |-> AbsentFile]

NoSummary ==
    [validation_timestamp |-> 0, system_quality_score |-> 0, entities_validated |-> 0,
     results |-> <<>>]

VldIdle ==
    [pc |-> "off", fs |-> NoFiles, i |-> 0, results |-> <<>>, overall_scores |-> <<>>,
     summary |-> NoSummary, reports |-> <<>>, now |-> 0, saved |-> 0]

Init ==
    /\ inp = [r \in Runs |-> NoInput]
    /\ proc = [r \in Runs |-> IdleProc]
    /\ db = EmptyDb
    /\ migration_runs = <<>>
    /\ migration_row_counts = <<>>
    /\ conn = NoConn
    /\ clock = 0
    /\ dry = DryIdle
    /\ vld = VldIdle
    /\ nz = NzIdle

\* ----------------------------------------------------------- control flow
\* main() with the patents/trademarks block placed before the clients block.
GotoAssetsFirst(pc) ==
    CASE pc = "idle"         -> "tx_assets"
      [] pc = "tx_assets"    -> "patents"
      [] pc = "patents"      -> "trademarks"
      [] pc = "trademarks"   -> "read_assets"
      [] pc = "read_assets"  -> "tx_clients"
      [] pc = "tx_clients"   -> "clients"
      [] pc = "clients"      -> "read_clients"
      [] pc = "read_clients" -> "tx_deadlines"
      [] pc = "tx_deadlines" -> "deadlines"
      [] pc = "deadlines"    -> "mark_success"
      [] pc = "mark_success" -> "done"

\* The order of the blocks of main(): where control goes when the block at
\* `pc` is left normally.
Goto(pc) ==
    CASE pc = "idle"         -> "tx_clients"
      [] pc = "tx_clients"   -> "clients"
      [] pc = "clients"      -> "read_clients"
      [] pc = "read_clients" -> "tx_assets"
      [] pc = "tx_assets"    -> "patents"
      [] pc = "patents"      -> "trademarks"
      [] pc = "trademarks"   -> "read_assets"
      [] pc = "read_assets"  -> "tx_deadlines"
      [] pc = "tx_deadlines" -> "deadlines"
      [] pc = "deadlines"    -> "mark_success"
      [] pc = "mark_success" -> "done"

\* The dataframe handed to upsert_dataframe for `table` by invocation r.
Batch(r, table) ==
    CASE table = "clients"    -> transform_clients(inp[r].clients)
      [] table = "patents"    -> transform_patents(inp[r].patents, proc[r].client_map)
      [] table = "trademarks" -> transform_trademarks(inp[r].trademarks, proc[r].client_map)
      [] table = "deadlines"  ->
            transform_deadlines(inp[r].deadlines, proc[r].patent_map, proc[r].tm_map)

\* A handler that flips the run to 'failed'.
OnExceptionMarksFailed(runs, r) == [runs EXCEPT ![r].status = "failed"]

\* What an exception that leaves main() does to the run's audit row: there
\* is no handler, the row is not touched.
OnException(runs, r) == runs

\* Statements that are committed one by one (autocommit).
RollbackKeepsWrites(committed, view) == view

\* What becomes of the open transaction's writes when its `with` block is
\* left by an exception or the process dies: engine.begin() rolls back.
Rollback(committed, view) == committed

\* Control points at which an invocation takes no further step.
Halted == {"idle", "done", "killed", "rolled_back", "raised"}

\* ---------------------------------------------------------------- actions
\* Lines 89-94 and 112-121: read the files, create the schema, insert the
\* run row with status 'running' in a transaction of its own.
Start(r, input) ==
    /\ proc[r].pc = "idle"
    /\ Len(migration_runs) = r - 1
    /\ conn.owner = 0
    /\ inp' = [inp EXCEPT ![r] = input]
    /\ clock' = clock + 1
    /\ migration_runs' = Append(migration_runs,
            [status |-> "running", started_at |-> clock + 1, finished_at |-> NULL])
    /\ proc' = [proc EXCEPT ![r].pc = Goto("idle")]
    /\ UNCHANGED <<db, migration_row_counts, conn, dry, vld, nz>>

\* with engine.begin() as conn: one transaction is open at a time.  The
\* transforms that precede the block (lines 132-133, 149) are computed from
\* the locals; the block is entered only if they returned.
Begin(r) ==
    /\ proc[r].pc \in {"tx_clients", "tx_assets", "tx_deadlines"}
    /\ proc[r].pc = "tx_deadlines" => ~StrAccessorRaises(inp[r].deadlines)
    /\ conn.owner = 0
    /\ conn' = [owner |-> r, db |-> db, runs |-> migration_runs,
                counts |-> migration_row_counts]
    /\ proc' = [proc EXCEPT ![r].pc = Goto(proc[r].pc), ![r].i = 0]
    /\ UNCHANGED <<inp, db, migration_runs, migration_row_counts, clock, dry, vld, nz>>

\* conn.execute(stmt, records): the statement is executed once per record.
UpsertRow(r) ==
    /\ proc[r].pc \in Tables
    /\ conn.owner = r
    /\ proc[r].i < Len(Batch(r, proc[r].pc))
    /\ conn' = [conn EXCEPT !.db[proc[r].pc] =
                    upsert_row(@, Batch(r, proc[r].pc)[proc[r].i + 1])]
    /\ proc' = [proc EXCEPT ![r].i = @ + 1]
    /\ UNCHANGED <<inp, db, migration_runs, migration_row_counts, clock, dry, vld, nz>>

\* The counts inserted on a connection of their own, committed at once.
RecordCounts_Autocommit(r) ==
    /\ proc[r].pc \in Tables
    /\ conn.owner = r
    /\ proc[r].i = Len(Batch(r, proc[r].pc))
    /\ LET row == [run_id |-> r, table_name |-> proc[r].pc,
                   inserted |-> upsert_counts(Batch(r, proc[r].pc))[1],
                   updated |-> upsert_counts(Batch(r, proc[r].pc))[2]]
       IN  /\ conn' = [conn EXCEPT !.counts = Append(@, row)]
           /\ migration_row_counts' = Append(migration_row_counts, row)
    /\ proc' = [proc EXCEPT ![r].pc = Goto(proc[r].pc), ![r].i = 0]
    /\ UNCHANGED <<inp, db, migration_runs, clock, dry, vld, nz>>

\* upsert_dataframe returns and its counts are inserted into
\* migration_row_counts.
RecordCounts(r) ==
    /\ proc[r].pc \in Tables
    /\ conn.owner = r
    /\ proc[r].i = Len(Batch(r, proc[r].pc))
    /\ conn' = [conn EXCEPT !.counts = Append(@,
                    [run_id |-> r, table_name |-> proc[r].pc,
                     inserted |-> upsert_counts(Batch(r, proc[r].pc))[1],
                     updated |-> upsert_counts(Batch(r, proc[r].pc))[2]])]
    /\ proc' = [proc EXCEPT ![r].pc = Goto(proc[r].pc), ![r].i = 0]
    /\ UNCHANGED <<inp, db, migration_runs, migration_row_counts, clock, dry, vld, nz>>

Commit ==
    /\ db' = conn.db
    /\ migration_runs' = conn.runs
    /\ migration_row_counts' = conn.counts
    /\ conn' = NoConn

\* Lines 129-130: read the client identity map, leave the block.
ReadClientMap(r) ==
    /\ proc[r].pc = "read_clients"
    /\ conn.owner = r
    /\ Commit
    /\ proc' = [proc EXCEPT ![r].pc = Goto("read_clients"),
                            ![r].client_map = SelectMap(conn.db["clients"])]
    /\ UNCHANGED <<inp, clock, dry, vld, nz>>

\* Lines 144-147: read the patent and trademark identity maps, leave the block.
ReadAssetMaps(r) ==
    /\ proc[r].pc = "read_assets"
    /\ conn.owner = r
    /\ Commit
    /\ proc' = [proc EXCEPT ![r].pc = Goto("read_assets"),
                            ![r].patent_map = SelectMap(conn.db["patents"]),
                            ![r].tm_map = SelectMap(conn.db["trademarks"])]
    /\ UNCHANGED <<inp, clock, dry, vld, nz>>

\* Line 149, 55: transform_deadlines raises; the exception leaves main().
TransformDeadlinesRaises(r) ==
    /\ proc[r].pc = "tx_deadlines"
    /\ StrAccessorRaises(inp[r].deadlines)
    /\ proc' = [proc EXCEPT ![r] = Locals("raised", 0, EmptyMap, EmptyMap, EmptyMap)]
    /\ migration_runs' = OnException(migration_runs, r)
    /\ UNCHANGED <<inp, db, migration_row_counts, conn, clock, dry, vld, nz>>

\* Line 155: mark the run 'success', leave the block.
MarkSuccess(r) ==
    /\ proc[r].pc = "mark_success"
    /\ conn.owner = r
    /\ db' = conn.db
    /\ migration_row_counts' = conn.counts
    /\ migration_runs' = [conn.runs EXCEPT ![r].status = "success",
                                            ![r].finished_at = clock + 1]
    /\ clock' = clock + 1
    /\ conn' = NoConn
    /\ proc' = [proc EXCEPT ![r] = Locals(Goto("mark_success"), 0, EmptyMap, EmptyMap, EmptyMap)]
    /\ UNCHANGED <<inp, dry, vld, nz>>

\* The process is aborted (killed, connection lost, statement error) at any
\* point after the run row was created.  An open transaction is rolled back.
Abort(r) ==
    /\ proc[r].pc \notin Halted
    /\ proc' = [proc EXCEPT ![r] =
                    Locals(IF conn.owner = r THEN "rolled_back" ELSE "killed", 0,
                           EmptyMap, EmptyMap, EmptyMap)]
    /\ IF conn.owner = r
       THEN /\ db' = Rollback(db, conn.db)
            /\ conn' = NoConn
       ELSE UNCHANGED <<db, conn>>
    /\ migration_runs' = OnException(migration_runs, r)
    /\ UNCHANGED <<inp, migration_row_counts, clock, dry, vld, nz>>

Next ==
    \E r \in Runs :
        \/ \E input \in Inputs : Start(r, input)
        \/ Begin(r)
        \/ UpsertRow(r)
        \/ RecordCounts(r)
        \/ ReadClientMap(r)
        \/ ReadAssetMaps(r)
        \/ TransformDeadlinesRaises(r)
        \/ MarkSuccess(r)
        \/ Abort(r)

Spec == Init /\ [][Next]_vars

\* ------------------------------------------------- main() without a store
\* Legacy files of at most MaxRows rows for the dry run: whitespace-padded
\* and repeated keys, references to a client that no row defines.
DryClientRows == {ClientRow(id, v) : id \in {Ref("A"), Padded("A"), Ref("B")}, v \in {1, 2}}

DryPatentRows == {PatentRow(id, cl, 1) : id \in {Ref("P"), Ref("Q")}, cl \in {Ref("A"), Ref("C")}}

DryInputs ==
    {LegacyInput(c, p, i.trademarks, i.deadlines) :
        c \in PosSeqs(DryClientRows, MaxRows),
        p \in PosSeqs(DryPatentRows, MaxRows),
        i \in Inputs}

DryInit ==
    /\ inp = [r \in Runs |-> NoInput]
    /\ proc = [r \in Runs |-> IdleProc]
    /\ db = EmptyDb
    /\ migration_runs = <<>>
    /\ migration_row_counts = <<>>
    /\ conn = NoConn
    /\ clock = 0
    /\ \E input \in DryInputs : dry = [DryIdle EXCEPT !.pc = "clients", !.inp = input]
    /\ vld = VldIdle
    /\ nz = NzIdle

DryRest == <<inp, proc, db, migration_runs, migration_row_counts, conn, clock, vld, nz>>

\* Lines 94, 99-100.
DryClients ==
    /\ dry.pc = "clients"
    /\ LET tf == transform_clients(dry.inp.clients) IN
        dry' = [dry EXCEPT !.pc = "assets", !.tf_clients = tf,
                           !.client_map = EnumerateMap(tf),
                           !.written = @ \cup {"clients"}]
    /\ UNCHANGED DryRest

\* Lines 101-104.
DryAssets ==
    /\ dry.pc = "assets"
    /\ LET tfp == transform_patents(dry.inp.patents, dry.client_map)
           tft == transform_trademarks(dry.inp.trademarks, dry.client_map) IN
        dry' = [dry EXCEPT !.pc = "deadlines", !.tf_patents = tfp, !.tf_tms = tft,
                           !.patent_map = EnumerateMap(tfp),
                           !.tm_map = EnumerateMap(tft)]
    /\ UNCHANGED DryRest

\* Line 105, transform_deadlines returns.
DryDeadlines ==
    /\ dry.pc = "deadlines"
    /\ ~StrAccessorRaises(dry.inp.deadlines)
    /\ dry' = [dry EXCEPT !.pc = "write",
                   !.tf_deadlines =
                        transform_deadlines(dry.inp.deadlines, dry.patent_map, dry.tm_map)]
    /\ UNCHANGED DryRest

\* Line 105, transform_deadlines raises.
DryDeadlinesRaises ==
    /\ dry.pc = "deadlines"
    /\ StrAccessorRaises(dry.inp.deadlines)
    /\ dry' = [dry EXCEPT !.pc = "raised"]
    /\ UNCHANGED DryRest

\* Lines 106-110.
DryWrite ==
    /\ dry.pc = "write"
    /\ dry' = [dry EXCEPT !.pc = "done", !.written = Tables]
    /\ UNCHANGED DryRest

DryNext == DryClients \/ DryAssets \/ DryDeadlines \/ DryDeadlinesRaises \/ DryWrite

DrySpec == DryInit /\ [][DryNext]_vars

\* ============================================================ validation
\* Cells of a legacy CSV as pandas reads them: a non-empty string, or NaN
\* for an empty cell.  A file is absent, present but not parseable by
\* read_csv, or a frame of rows under the columns its header names.
UnreadableFile == [exists |-> TRUE, readable |-> FALSE, columns |-> {}, rows |-> <<>>]

CsvFile(columns, rows) ==
    [exists |-> TRUE, readable |-> TRUE, columns |-> columns, rows |-> rows]

files_to_validate == <<"clients", "patents", "trademarks", "deadlines">>

EntityTypes == {files_to_validate[k] : k \in DOMAIN files_to_validate}

\* Scores are kept in hundredths of a point (round(x, 2)).
Points == 100
Cents == 100
PerError == 5
QualityWeight == 7
BusinessWeight == 3
Tenths == QualityWeight + BusinessWeight

\* round() of the non-negative rational n / d to the nearest integer, ties
\* to even.
RoundDiv(n, d) ==
    LET q == n \div d
        r == n % d
    IN  IF 2 * r < d THEN q
        ELSE IF 2 * r > d THEN q + 1
        ELSE IF q % 2 = 0 THEN q ELSE q + 1

RECURSIVE SumSeq(_)
SumSeq(seq) == IF seq = <<>> THEN 0 ELSE seq[1] + SumSeq(Tail(seq))

RECURSIVE IdxSeq(_, _)
IdxSeq(S, n) ==
    IF n = 0 THEN <<>>
    ELSE IF n \in S THEN Append(IdxSeq(S, n - 1), n) ELSE IdxSeq(S, n - 1)

\* Python truthiness of a cell: NaN is a non-zero float, hence true.
Truthy(v) == v # ""

astype_str(v) == IF v = NaN THEN "nan" ELSE v

\* transform_utils over the vocabulary of the model's cells.
clean_string(v) ==
    IF v = NaN THEN ""
    ELSE IF Lower(v) \in {"n/a", "na", "null", "none", "unknown", "tbd", "pending"} THEN ""
    ELSE v

EmailPattern == {"a@b.co"}

parse_email(email) ==
    IF ~Truthy(email) THEN ""
    ELSE LET email_clean == Lower(clean_string(email))
             fixed == IF email_clean = "a_at_b.co" THEN "a@b.co" ELSE email_clean
         IN  IF email_clean = "" THEN ""
             ELSE IF email_clean \in EmailPattern THEN email_clean
             ELSE IF fixed \in EmailPattern THEN fixed
             ELSE ""

\* Python's None where the other outcome is a string.
None == "None"

\* dateutil's parse of the vocabulary: ISO dates are returned unchanged,
\* the sentinel dates and free text give None.
IsoDates == {"2023-01-05", "2024-06-01", "2099-01-05"}

to_date(value) ==
    IF value = NaN \/ ~Truthy(value) THEN None
    ELSE IF clean_string(value) = "" THEN None
    ELSE IF clean_string(value) \in {"00/00/0000", "1900-01-01", "0000-00-00", "01/01/1900"} THEN None
    ELSE IF clean_string(value) \in IsoDates THEN clean_string(value)
    ELSE None

\* The order of ISO date strings (lexicographic, which is chronological).
IsoRank(d) == CASE d = "2023-01-05" -> 1 [] d = "2024-06-01" -> 2 [] d = "2099-01-05" -> 3

IsoLess(a, b) == IsoRank(a) < IsoRank(b)

today == "2024-06-01"

\* parse_classes: the class numbers of the cell inside 1..45, sorted.
parse_classes(value) ==
    IF value = NaN \/ ~Truthy(value) THEN <<>>
    ELSE IF clean_string(value) = "9, 35" THEN <<9, 35>>
    ELSE IF clean_string(value) = "9" THEN <<9>>
    ELSE <<>>

\* --- transform_utils.validate_data_quality
\* A cell that only the empty string counts as missing.
IsMissing_EmptyOnly(v) == v = ""

IsMissing(v) == v = NaN \/ v = ""

critical_fields(entity_type) ==
    CASE entity_type = "clients" -> {"client_name", "email"}
      [] entity_type \in {"patents", "trademarks", "copyrights"} -> {"title", "client_id", "status"}
      [] OTHER -> {}

date_fields(entity_type) ==
    IF entity_type \in {"patents", "trademarks", "copyrights"}
    THEN {"filing_date", "grant_date", "registration_date"}
    ELSE {}

\* Series.duplicated().sum(): the rows that repeat an earlier row's value.
duplicated(df, field) ==
    Cardinality({i \in 1..Len(df) : \E j \in 1..(i - 1) : df[j][field] = df[i][field]})

\* sum() of the values of a function.
RECURSIVE SumFn(_)
SumFn(f) ==
    IF DOMAIN f = {} THEN 0
    ELSE LET x == CHOOSE y \in DOMAIN f : TRUE
         IN  f[x] + SumFn([z \in DOMAIN f \ {x} |-> f[z]])

ZeroMetrics ==
    [total_rows |-> 0, missing_critical_fields |-> 0, invalid_dates |-> 0,
     invalid_emails |-> 0, duplicate_records |-> 0, quality_score |-> 0]

validate_data_quality(file, entity_type) ==
    LET df == file.rows
        total_rows == Len(df)
        MissingIn(field) == Cardinality({i \in 1..total_rows : IsMissing(df[i][field])})
        InvalidIn(field) ==
            Cardinality({i \in 1..total_rows :
                            Truthy(df[i][field]) /\ to_date(df[i][field]) = None})
        missing == SumFn([f \in critical_fields(entity_type) \cap file.columns |-> MissingIn(f)])
        invalid_dates == SumFn([f \in date_fields(entity_type) \cap file.columns |-> InvalidIn(f)])
        invalid_emails ==
            IF entity_type = "clients" /\ "email" \in file.columns
            THEN total_rows - Cardinality({i \in 1..total_rows :
                                    Truthy(df[i].email) /\ parse_email(df[i].email) # ""})
            ELSE 0
        duplicates == IF "external_ref" \in file.columns THEN duplicated(df, "external_ref") ELSE 0
        total_issues == missing + invalid_dates + invalid_emails + duplicates
    IN  IF total_rows = 0 THEN ZeroMetrics
        ELSE [total_rows |-> total_rows, missing_critical_fields |-> missing,
              invalid_dates |-> invalid_dates, invalid_emails |-> invalid_emails,
              duplicate_records |-> duplicates,
              quality_score |->
                  IF total_issues >= total_rows THEN 0
                  ELSE RoundDiv(Points * Cents * (total_rows - total_issues), total_rows)]

\* --- IPMSDataValidator
\* row.get(key, idx): the cell under key, or the row's 0-based index.
RowGet(file, i, key) == IF key \in file.columns THEN file.rows[i][key] ELSE i - 1

Finding(file, i, key) == [record_id |-> RowGet(file, i, key), row |-> i]

_validate_client_business_rules(file) ==
    LET df == file.rows
        email(i) == IF "email" \in file.columns THEN df[i].email ELSE ""
        bad == {i \in 1..Len(df) : Truthy(email(i)) /\ parse_email(email(i)) = ""}
        idx == IdxSeq(bad, Len(df))
    IN  [k \in 1..Len(idx) |-> Finding(file, idx[k], "client_id")]

_validate_patent_business_rules(file) ==
    LET df == file.rows
        date(i, f) == IF f \in file.columns THEN to_date(df[i][f]) ELSE None
        bad == {i \in 1..Len(df) :
                    /\ date(i, "filing_date") # None
                    /\ date(i, "grant_date") # None
                    /\ IsoLess(date(i, "grant_date"), date(i, "filing_date"))}
        idx == IdxSeq(bad, Len(df))
    IN  [k \in 1..Len(idx) |-> Finding(file, idx[k], "patent_id")]

_validate_trademark_business_rules(file) ==
    LET df == file.rows
        nice(i) == IF "nice_classes" \in file.columns THEN df[i].nice_classes ELSE ""
        bad == {i \in 1..Len(df) : Truthy(nice(i)) /\ parse_classes(nice(i)) = <<>>}
        idx == IdxSeq(bad, Len(df))
    IN  [k \in 1..Len(idx) |-> Finding(file, idx[k], "tm_id")]

\* df['status'].str raises KeyError without the column and AttributeError
\* when every cell of a non-empty column is NaN (a float64 column).
StatusAccessorRaises(file) ==
    \/ "status" \notin file.columns
    \/ Len(file.rows) > 0 /\ \A i \in 1..Len(file.rows) : file.rows[i].status = NaN

_validate_deadline_business_rules(file) ==
    LET df == file.rows
        due(i) == IF "due_date" \in file.columns THEN to_date(df[i].due_date) ELSE None
        bad == {i \in 1..Len(df) :
                    /\ df[i].status # NaN
                    /\ Lower(df[i].status) = "pending"
                    /\ due(i) # None
                    /\ IsoLess(due(i), today)}
        idx == IdxSeq(bad, Len(df))
    IN  [k \in 1..Len(idx) |-> Finding(file, idx[k], "deadline_id")]

_validate_business_rules(file, entity_type) ==
    CASE entity_type = "clients" -> _validate_client_business_rules(file)
      [] entity_type = "patents" -> _validate_patent_business_rules(file)
      [] entity_type = "trademarks" -> _validate_trademark_business_rules(file)
      [] entity_type = "deadlines" -> _validate_deadline_business_rules(file)
      [] OTHER -> <<>>

BusinessRulesRaise(file, entity_type) ==
    entity_type = "deadlines" /\ StatusAccessorRaises(file)

\* entity_type[:-1] + "_id"
RecordIdKey(entity_type) ==
    CASE entity_type = "clients" -> "client_id"
      [] entity_type = "patents" -> "patent_id"
      [] entity_type = "trademarks" -> "trademark_id"
      [] entity_type = "deadlines" -> "deadline_id"

\* Reading clients.csv again for the reference check raises when it does
\* not parse or has no client_id column.
ReferentialIntegrityRaises(fs) ==
    /\ fs.clients.exists
    /\ ~fs.clients.readable \/ "client_id" \notin fs.clients.columns

valid_client_ids(fs) ==
    {astype_str(fs.clients.rows[i].client_id) : i \in 1..Len(fs.clients.rows)}

\* The reference check with the negation of isin() left out.
invalid_client_refs_Valid(file, fs) ==
    IF fs.clients.exists /\ "client_id" \in file.columns
    THEN {i \in 1..Len(file.rows) : file.rows[i].client_id \in valid_client_ids(fs)}
    ELSE {}

invalid_client_refs(file, fs) ==
    IF fs.clients.exists /\ "client_id" \in file.columns
    THEN {i \in 1..Len(file.rows) : file.rows[i].client_id \notin valid_client_ids(fs)}
    ELSE {}

_validate_referential_integrity(file, entity_type, fs) ==
    LET idx == IdxSeq(invalid_client_refs(file, fs), Len(file.rows))
    IN  [k \in 1..Len(idx) |-> Finding(file, idx[k], RecordIdKey(entity_type))]

\* The business score with ten points taken off per error.
business_score_TenPerError(business_errors) ==
    IF business_errors > 0
    THEN (IF Points - business_errors * 2 * PerError > 0
          THEN Points - business_errors * 2 * PerError ELSE 0)
    ELSE Points

business_score(business_errors) ==
    IF business_errors > 0
    THEN (IF Points - business_errors * PerError > 0
          THEN Points - business_errors * PerError ELSE 0)
    ELSE Points

_calculate_overall_score(quality_score, business_errors) ==
    RoundDiv(QualityWeight * quality_score
                + BusinessWeight * business_score(business_errors) * Cents, Tenths)

ErrorResult ==
    [status |-> "error", quality_score |-> 0, has_overall |-> FALSE, overall_score |-> 0,
     record_count |-> 0, quality_metrics |-> ZeroMetrics,
     business_errors |-> <<>>, referential_errors |-> <<>>]

ValidationRaises(fs, entity_type) ==
    \/ ~fs[entity_type].readable
    \/ BusinessRulesRaise(fs[entity_type], entity_type)
    \/ ReferentialIntegrityRaises(fs)

validate_file(fs, entity_type) ==
    LET file == fs[entity_type]
        quality_metrics == validate_data_quality(file, entity_type)
        business_validation == _validate_business_rules(file, entity_type)
    IN  IF ~file.exists THEN ErrorResult
        ELSE IF ValidationRaises(fs, entity_type) THEN ErrorResult
        ELSE [status |-> "success", quality_score |-> quality_metrics.quality_score,
              has_overall |-> TRUE,
              overall_score |-> _calculate_overall_score(quality_metrics.quality_score,
                                                         Len(business_validation)),
              record_count |-> Len(file.rows), quality_metrics |-> quality_metrics,
              business_errors |-> business_validation,
              referential_errors |-> _validate_referential_integrity(file, entity_type, fs)]

\* The loop of validate_all that keeps no entry for an entity in error.
StoreResult_SkipErrors(results, entity_type, result) ==
    IF result.status = "error" THEN results ELSE (entity_type :> result) @@ results

StoreResult(results, entity_type, result) == (entity_type :> result) @@ results

\* result.get('overall_score') is false without the key and for a score 0.
CountsTowardsSystemScore(result) == result.has_overall /\ result.overall_score # 0

system_score(overall_scores) ==
    IF overall_scores = <<>> THEN 0
    ELSE RoundDiv(SumSeq(overall_scores), Len(overall_scores))

\* --- the data directory
\* Legacy files of at most MaxRows rows per entity, next to the absent, the
\* unparseable and the header-only file and a file without a column the
\* validator reads.  Client "C" and patent "Z" are defined by no file.
ClientCols == {"client_id", "client_name", "email"}

PatentCols == {"patent_id", "client_id", "title", "status", "filing_date", "grant_date"}

TmCols == {"tm_id", "client_id", "status", "nice_classes"}

DeadlineCols == {"deadline_id", "related_type", "related_id", "client_id", "status", "due_date"}

VClientRow(id, name, email) == [client_id |-> id, client_name |-> name, email |-> email]

VPatentRow(cl, title, filing, grant) ==
    [patent_id |-> "P", client_id |-> cl, title |-> title, status |-> "granted",
     filing_date |-> filing, grant_date |-> grant]

VTmRow(cl, status, nice) ==
    [tm_id |-> "T", client_id |-> cl, status |-> status, nice_classes |-> nice]

VDeadlineRow(rid, status, due) ==
    [deadline_id |-> "D", related_type |-> "patent", related_id |-> rid,
     client_id |-> "A", status |-> status, due_date |-> due]

ClientKinds ==
    {VClientRow(id, k[1], k[2]) :
        id \in {"A", "B"},
        k \in {<<"Acme", "a@b.co">>, <<"Acme", "ab.co">>, <<NaN, NaN>>}}

PatentKinds ==
    {VPatentRow(cl, k[1], k[2], k[3]) :
        cl \in {"A", "C", NaN},
        k \in {<<"Widget", "2023-01-05", "2024-06-01">>,
               <<NaN, "2024-06-01", "2023-01-05">>,
               <<"Widget", "soon", NaN>>}}

TmKinds ==
    {VTmRow(cl, k[1], k[2]) :
        cl \in {"A", "C"}, k \in {<<"registered", "9, 35">>, <<NaN, "99">>}}

DeadlineKinds ==
    {VDeadlineRow(rid, k[1], k[2]) :
        rid \in {"P", "Z"},
        k \in {<<"Pending", "2023-01-05">>, <<"completed", "2023-01-05">>,
               <<NaN, "2099-01-05">>}}

GoodFile(entity_type) ==
    CASE entity_type = "clients" -> CsvFile(ClientCols, <<VClientRow("A", "Acme", "a@b.co")>>)
      [] entity_type = "patents" ->
            CsvFile(PatentCols, <<VPatentRow("A", "Widget", "2023-01-05", "2024-06-01")>>)
      [] entity_type = "trademarks" -> CsvFile(TmCols, <<VTmRow("A", "registered", "9")>>)
      [] entity_type = "deadlines" ->
            CsvFile(DeadlineCols, <<VDeadlineRow("P", "completed", "2099-01-05")>>)

\* As many rows with a malformed address as bring the business score to 0.
ManyBadEmails ==
    CsvFile(ClientCols, [i \in 1..(Points \div PerError) |-> VClientRow("A", "Acme", "ab.co")])

\* Three patents of which the last has no title and was granted before it
\* was filed: a quality score with a repeating decimal.
OneInThreeIncomplete ==
    CsvFile(PatentCols, <<VPatentRow("A", "Widget", "2023-01-05", "2024-06-01"),
                          VPatentRow("A", "Widget", "2023-01-05", "2024-06-01"),
                          VPatentRow("A", NaN, "2024-06-01", "2023-01-05")>>)

WithoutColumn(file, column) == [file EXCEPT !.columns = @ \ {column}]

SpecialFiles(entity_type) ==
    {AbsentFile, UnreadableFile, [GoodFile(entity_type) EXCEPT !.rows = <<>>]}
    \cup (CASE entity_type = "clients" ->
                {WithoutColumn(GoodFile("clients"), "client_id"), ManyBadEmails,
                 CsvFile(ClientCols, <<VClientRow("A", "Acme", "a_at_b.co"),
                                       VClientRow("B", "unknown", "A@B.co")>>)}
            [] entity_type = "patents" -> {OneInThreeIncomplete}
            [] entity_type = "deadlines" -> {WithoutColumn(GoodFile("deadlines"), "status")}
            [] OTHER -> {})

RowKinds(entity_type) ==
    CASE entity_type = "clients" -> ClientKinds
      [] entity_type = "patents" -> PatentKinds
      [] entity_type = "trademarks" -> TmKinds
      [] entity_type = "deadlines" -> DeadlineKinds

Files(entity_type) ==
    SpecialFiles(entity_type)
    \cup {[GoodFile(entity_type) EXCEPT !.rows = rows] :
            rows \in PosSeqs(RowKinds(entity_type), MaxRows)}

\* Data directories in which one file is any of Files and each other file
\* is absent or the one-row file without a defect.
BasicDirs ==
    [clients : {AbsentFile, GoodFile("clients")},
     patents : {AbsentFile, GoodFile("patents")},
     trademarks : {AbsentFile, GoodFile("trademarks")},
     deadlines : {AbsentFile, GoodFile("deadlines")}]

DataDirs ==
    UNION {{[d EXCEPT ![e] = f] : d \in BasicDirs, f \in Files(e)} : e \in EntityTypes}

ValInit ==
    /\ inp = [r \in Runs |-> NoInput]
    /\ proc = [r \in Runs |-> IdleProc]
    /\ db = EmptyDb
    /\ migration_runs = <<>>
    /\ migration_row_counts = <<>>
    /\ conn = NoConn
    /\ clock = 0
    /\ dry = DryIdle
    /\ \E d \in DataDirs : vld = [VldIdle EXCEPT !.pc = "loop", !.fs = d, !.i = 1]
    /\ nz = NzIdle

\* validate_all, lines 239-245: one turn of the loop.
ValidateEntity ==
    /\ vld.pc = "loop"
    /\ LET entity_type == files_to_validate[vld.i]
           result == validate_file(vld.fs, entity_type)
       IN  vld' = [vld EXCEPT
                    !.results = StoreResult(@, entity_type, result),
                    !.overall_scores =
                        IF CountsTowardsSystemScore(result)
                        THEN Append(@, result.overall_score) ELSE @,
                    !.i = @ + 1,
                    !.pc = IF vld.i = Len(files_to_validate) THEN "save" ELSE "loop"]
    /\ UNCHANGED <<inp, proc, db, migration_runs, migration_row_counts, conn, clock, dry, nz>>

\* strftime("%Y%m%d_%H%M%S"): the name of the report file is the second of
\* the wall clock, which advances in ticks.
report_file(now) == now \div TicksPerSecond

\* open(report_file, 'w') and json.dump: the file is created or truncated.
WriteFile(reports, name, content) == (name :> content) @@ reports

\* validate_all, lines 247-261, and _save_validation_report.
SaveReport ==
    /\ vld.pc = "save"
    /\ LET validation_summary ==
            [validation_timestamp |-> vld.now,
             system_quality_score |-> system_score(vld.overall_scores),
             entities_validated |-> Cardinality(DOMAIN vld.results),
             results |-> vld.results]
       IN  vld' = [vld EXCEPT !.summary = validation_summary,
                              !.reports = WriteFile(@, report_file(vld.now), validation_summary),
                              !.saved = @ + 1,
                              !.pc = "done"]
    /\ UNCHANGED <<inp, proc, db, migration_runs, migration_row_counts, conn, clock, dry, nz>>

ValNext == ValidateEntity \/ SaveReport

ValSpec == ValInit /\ [][ValNext]_vars

\* --- repeated validation runs (POST /api/validation/run)
\* The wall clock advances.
Tick ==
    /\ vld.pc # "off"
    /\ vld.now < MaxRuns * TicksPerSecond
    /\ vld' = [vld EXCEPT !.now = @ + 1]
    /\ UNCHANGED <<inp, proc, db, migration_runs, migration_row_counts, conn, clock, dry, nz>>

\* run_validation_background: a new validator runs validate_all after the
\* previous run has returned; the clock has advanced by then.
RunValidation ==
    /\ vld.pc = "done"
    /\ vld.saved < MaxRuns
    /\ vld.now < MaxRuns * TicksPerSecond
    /\ vld' = [vld EXCEPT !.pc = "loop", !.i = 1, !.results = <<>>,
                          !.overall_scores = <<>>, !.now = @ + 1]
    /\ UNCHANGED <<inp, proc, db, migration_runs, migration_row_counts, conn, clock, dry, nz>>

RepInit ==
    /\ inp = [r \in Runs |-> NoInput]
    /\ proc = [r \in Runs |-> IdleProc]
    /\ db = EmptyDb
    /\ migration_runs = <<>>
    /\ migration_row_counts = <<>>
    /\ conn = NoConn
    /\ clock = 0
    /\ dry = DryIdle
    /\ \E d \in BasicDirs : vld = [VldIdle EXCEPT !.pc = "loop", !.fs = d, !.i = 1]
    /\ nz = NzIdle

RepNext == ValidateEntity \/ SaveReport \/ Tick \/ RunValidation

RepSpec == RepInit /\ [][RepNext]_vars

\* =========================================================== normalizers
\* transform_utils.py and the columns of migrate.py that use it.  A text is
\* a sequence of one-character strings; "sup2" stands for the single
\* character U+00B2 (superscript two), "eacute", "ccedil" and "ntilde" for
\* the accented letters of COUNTRY_MAP.

MaxLen == 4

DecimalDigits == {"0", "1", "2", "3", "4", "5", "6", "7", "8", "9"}

\* int(s) of a run of decimal digits.
RECURSIVE IntOf(_)
IntOf(run) ==
    LET DigitVal(c) ==
            CASE c = "0" -> 0 [] c = "1" -> 1 [] c = "2" -> 2 [] c = "3" -> 3 [] c = "4" -> 4
              [] c = "5" -> 5 [] c = "6" -> 6 [] c = "7" -> 7 [] c = "8" -> 8 [] c = "9" -> 9
    IN  IF run = <<>> THEN 0
        ELSE IntOf(SubSeq(run, 1, Len(run) - 1)) * 10 + DigitVal(run[Len(run)])

LowerChar(c) ==
    CASE c = "A" -> "a" [] c = "B" -> "b" [] c = "C" -> "c" [] c = "D" -> "d"
      [] c = "E" -> "e" [] c = "F" -> "f" [] c = "G" -> "g" [] c = "H" -> "h"
      [] c = "I" -> "i" [] c = "J" -> "j" [] c = "K" -> "k" [] c = "L" -> "l"
      [] c = "M" -> "m" [] c = "N" -> "n" [] c = "O" -> "o" [] c = "P" -> "p"
      [] c = "Q" -> "q" [] c = "R" -> "r" [] c = "S" -> "s" [] c = "T" -> "t"
      [] c = "U" -> "u" [] c = "V" -> "v" [] c = "W" -> "w" [] c = "X" -> "x"
      [] c = "Y" -> "y" [] c = "Z" -> "z"
      [] c = "Eacute" -> "eacute" [] c = "Ccedil" -> "ccedil" [] c = "Ntilde" -> "ntilde"
      [] OTHER -> c

UpperChar(c) ==
    CASE c = "a" -> "A" [] c = "b" -> "B" [] c = "c" -> "C" [] c = "d" -> "D"
      [] c = "e" -> "E" [] c = "f" -> "F" [] c = "g" -> "G" [] c = "h" -> "H"
      [] c = "i" -> "I" [] c = "j" -> "J" [] c = "k" -> "K" [] c = "l" -> "L"
      [] c = "m" -> "M" [] c = "n" -> "N" [] c = "o" -> "O" [] c = "p" -> "P"
      [] c = "q" -> "Q" [] c = "r" -> "R" [] c = "s" -> "S" [] c = "t" -> "T"
      [] c = "u" -> "U" [] c = "v" -> "V" [] c = "w" -> "W" [] c = "x" -> "X"
      [] c = "y" -> "Y" [] c = "z" -> "Z"
      [] c = "eacute" -> "Eacute" [] c = "ccedil" -> "Ccedil" [] c = "ntilde" -> "Ntilde"
      [] OTHER -> c

LowerText(s) == [i \in 1..Len(s) |-> LowerChar(s[i])]

\* clean_string over texts; re.sub(r'\s+', ' ', s) keeps the first space of
\* a run of spaces.
CleanString(s) ==
    LET stripped == Strip(s)
        kept == {i \in 1..Len(stripped) : i = 1 \/ stripped[i] # " " \/ stripped[i - 1] # " "}
        cleaned == SubSeqByIdx(stripped, kept, 1)
        blanks == {<<"n", "/", "a">>, <<"n", "a">>, <<"n", "u", "l", "l">>,
                   <<"n", "o", "n", "e">>, <<"u", "n", "k", "n", "o", "w", "n">>,
                   <<"t", "b", "d">>, <<"p", "e", "n", "d", "i", "n", "g">>}
    IN  IF LowerText(cleaned) \in blanks THEN <<>> ELSE cleaned

\* The maximal runs of s whose characters all belong to S.
MaximalRuns(s, S) ==
    {SubSeq(s, a, b) : <<a, b>> \in
        {ab \in (1..Len(s)) \X (1..Len(s)) :
            /\ ab[1] <= ab[2]
            /\ \A i \in ab[1]..ab[2] : s[i] \in S
            /\ ab[1] = 1 \/ s[ab[1] - 1] \notin S
            /\ ab[2] = Len(s) \/ s[ab[2] + 1] \notin S}}

\* ------------------------------------------------------------ status column
\* out["status"] = df.get("status", ""): the cell of the legacy file.
status_column(raw) == raw

\* The keys of STATUS_MAPPINGS for patents and for trademarks.
CanonicalStatuses(fn) ==
    IF fn = "transform_patents"
    THEN {"pending", "granted", "abandoned", "rejected", "expired"}
    ELSE {"pending", "registered", "opposed", "cancelled", "abandoned", "expired"}

\* ------------------------------------------------------------ parse_classes
MaxClass == 45

\* re.split(r'[,;\s]+', classes_str), without the empty parts.
ClassParts(s) == MaximalRuns(s, {s[i] : i \in DOMAIN s} \ {",", ";", " "})

\* part.isdigit(): true of the decimal digits and of the other characters
\* of numeric type Digit, such as the superscripts.
IsDigit(part) ==
    part # <<>> /\ \A i \in 1..Len(part) : part[i] \in DecimalDigits \cup {"sup2"}

\* int(part) raises ValueError on a part that passes isdigit() and holds a
\* character that is no decimal digit.
ParseClassesRaises(value) ==
    \E part \in ClassParts(CleanString(value)) :
        IsDigit(part) /\ \E i \in 1..Len(part) : part[i] \notin DecimalDigits

ParseClasses(value) ==
    LET parts == ClassParts(CleanString(value))
        findall(part) == {IntOf(run) : run \in MaximalRuns(part, DecimalDigits)}
        numbers == UNION {IF IsDigit(part) THEN {IntOf(part)} ELSE findall(part) :
                          part \in parts}
    IN  IdxSeq(numbers \cap 1..MaxClass, MaxClass)

\* --------------------------------------------------------------- split_name
\* str.title(): a letter that follows no letter is upper-cased, a letter
\* that follows a letter is lower-cased.
Title(s) ==
    LET IsLetter(c) == UpperChar(c) # LowerChar(c)
    IN  [i \in 1..Len(s) |->
            IF i = 1 \/ ~IsLetter(s[i - 1]) THEN UpperChar(s[i]) ELSE LowerChar(s[i])]

Contains(s, sub) ==
    \E i \in 1..(Len(s) - Len(sub) + 1) : SubSeq(s, i, i + Len(sub) - 1) = sub

\* The text before the first occurrence of the character c in s; s if
\* there is none.
Before(s, c) ==
    LET hits == {i \in 1..Len(s) : s[i] = c}
    IN  IF hits = {} THEN s ELSE SubSeq(s, 1, (CHOOSE i \in hits : \A j \in hits : i <= j) - 1)

\* The text after the first occurrence of the character c in s; empty if
\* there is none.
After(s, c) ==
    LET hits == {i \in 1..Len(s) : s[i] = c}
    IN  IF hits = {} THEN <<>>
        ELSE SubSeq(s, (CHOOSE i \in hits : \A j \in hits : i <= j) + 1, Len(s))

\* name_clean.split(","): parts[0] ends at the first comma, parts[1] at
\* the second one.  name_clean.split(): the text holds single spaces only,
\* so the words after the first one, joined by spaces, are the text after
\* the first space.
SplitName(name) ==
    LET name_clean == CleanString(name)
        Name(first, last) == [first_name |-> first, last_name |-> last]
    IN  IF name_clean = <<>> THEN Name(<<>>, <<>>)
        ELSE IF Contains(name_clean, <<",">>)
        THEN Name(Title(Strip(Before(After(name_clean, ","), ","))),
                  Title(Strip(Before(name_clean, ","))))
        ELSE IF ~Contains(name_clean, <<" ">>) THEN Name(<<>>, Title(name_clean))
        ELSE Name(Title(Before(name_clean, " ")), Title(After(name_clean, " ")))

\* -------------------------------------------------------------- parse_phone
MaxDigits == 11

bad_phones ==
    {<<"0", "0", "0", "-", "0", "0", "0", "-", "0", "0", "0", "0">>,
     <<"0", "0", "0", "0", "0", "0", "0", "0", "0", "0">>,
     <<"n", "/", "a">>, <<"u", "n", "k", "n", "o", "w", "n">>}

\* The 11-digit branch is missing.
ParsePhone_NoCountryCode(phone) ==
    LET phone_clean == CleanString(phone)
        IsDecimal(c) == c \in DecimalDigits
        digits == SelectSeq(phone_clean, IsDecimal)
    IN  IF phone_clean = <<>> \/ LowerText(phone_clean) \in bad_phones THEN <<>>
        ELSE IF Len(digits) = 10
        THEN <<"(">> \o SubSeq(digits, 1, 3) \o <<")", " ">> \o SubSeq(digits, 4, 6)
                     \o <<"-">> \o SubSeq(digits, 7, 10)
        ELSE IF Len(digits) >= 10 THEN <<"+">> \o digits
        ELSE phone_clean

ParsePhone(phone) ==
    LET phone_clean == CleanString(phone)
        IsDecimal(c) == c \in DecimalDigits
        digits == SelectSeq(phone_clean, IsDecimal)
    IN  IF phone_clean = <<>> \/ LowerText(phone_clean) \in bad_phones THEN <<>>
        ELSE IF Len(digits) = 10
        THEN <<"(">> \o SubSeq(digits, 1, 3) \o <<")", " ">> \o SubSeq(digits, 4, 6)
                     \o <<"-">> \o SubSeq(digits, 7, 10)
        ELSE IF Len(digits) = 11 /\ digits[1] = "1"
        THEN <<"+", "1", " ", "(">> \o SubSeq(digits, 2, 4) \o <<")", " ">>
                     \o SubSeq(digits, 5, 7) \o <<"-">> \o SubSeq(digits, 8, 11)
        ELSE IF Len(digits) >= 10 THEN <<"+">> \o digits
        ELSE phone_clean

\* ------------------------------------------------------------------ to_date
\* None where a text is expected.
NoText == <<"None">>

MinYear == 1900

MaxYear == 2050

bad_dates ==
    {<<"0", "0", "/", "0", "0", "/", "0", "0", "0", "0">>,
     <<"1", "9", "0", "0", "-", "0", "1", "-", "0", "1">>,
     <<"0", "0", "0", "0", "-", "0", "0", "-", "0", "0">>,
     <<"0", "1", "/", "0", "1", "/", "1", "9", "0", "0">>}

IsIsoForm(s) ==
    /\ Len(s) = 10 /\ s[5] = "-" /\ s[8] = "-"
    /\ \A i \in (1..10) \ {5, 8} : s[i] \in DecimalDigits

\* dateparser.parse(date_str, dayfirst=False, yearfirst=False) on the two
\* forms of the legacy files, YYYY-MM-DD and MM/DD/YYYY; any other text of
\* the model is no date and raises ValueError.
DateparserRaises(s) ==
    LET IsUsForm ==
            /\ Len(s) = 10 /\ s[3] = "/" /\ s[6] = "/"
            /\ \A i \in (1..10) \ {3, 6} : s[i] \in DecimalDigits
    IN  ~IsIsoForm(s) /\ ~IsUsForm

dateparser_parse(s) ==
    IF IsIsoForm(s)
    THEN [year |-> IntOf(SubSeq(s, 1, 4)), month |-> IntOf(SubSeq(s, 6, 7)),
          day |-> IntOf(SubSeq(s, 9, 10))]
    ELSE [year |-> IntOf(SubSeq(s, 7, 10)), month |-> IntOf(SubSeq(s, 1, 2)),
          day |-> IntOf(SubSeq(s, 4, 5))]

\* date.isoformat(): the year on four digits, the month and the day on two.
isoformat(dt) ==
    LET DigitChar(n) == <<"0", "1", "2", "3", "4", "5", "6", "7", "8", "9">>[n + 1]
        Two(n) == <<DigitChar((n \div 10) % 10), DigitChar(n % 10)>>
    IN  Two(dt.year \div 100) \o Two(dt.year) \o <<"-">> \o Two(dt.month) \o <<"-">> \o Two(dt.day)

\* The range of years is not checked.
ToDate_AnyYear(value) ==
    LET date_str == CleanString(value)
    IN  IF date_str = <<>> \/ date_str \in bad_dates \/ DateparserRaises(date_str) THEN NoText
        ELSE isoformat(dateparser_parse(date_str))

\* to_date over texts.
ToDate(value) ==
    LET date_str == CleanString(value)
    IN  IF date_str = <<>> \/ date_str \in bad_dates \/ DateparserRaises(date_str) THEN NoText
        ELSE IF dateparser_parse(date_str).year \in MinYear..MaxYear
        THEN isoformat(dateparser_parse(date_str))
        ELSE NoText

\* -------------------------------------------------------------------- iso2
\* COUNTRY_MAP in the order of the dictionary.
COUNTRY_MAP ==
    <<<<<<"U", "n", "i", "t", "e", "d", " ", "S", "t", "a", "t", "e", "s">>, "US">>,
      <<<<"U", "S", "A">>, "US">>,
      <<<<"U", "S">>, "US">>,
      <<<<"U", "n", "i", "t", "e", "d", " ", "S", "t", "a", "t", "e", "s", " ", "o", "f", " ", "A", "m", "e", "r", "i", "c", "a">>, "US">>,
      <<<<"C", "a", "n", "a", "d", "a">>, "CA">>,
      <<<<"C", "A">>, "CA">>,
      <<<<"U", "n", "i", "t", "e", "d", " ", "K", "i", "n", "g", "d", "o", "m">>, "GB">>,
      <<<<"U", "K">>, "GB">>,
      <<<<"G", "B">>, "GB">>,
      <<<<"G", "r", "e", "a", "t", " ", "B", "r", "i", "t", "a", "i", "n">>, "GB">>,
      <<<<"G", "e", "r", "m", "a", "n", "y">>, "DE">>,
      <<<<"D", "E">>, "DE">>,
      <<<<"D", "e", "u", "t", "s", "c", "h", "l", "a", "n", "d">>, "DE">>,
      <<<<"F", "e", "d", "e", "r", "a", "l", " ", "R", "e", "p", "u", "b", "l", "i", "c", " ", "o", "f", " ", "G", "e", "r", "m", "a", "n", "y">>, "DE">>,
      <<<<"F", "r", "a", "n", "c", "e">>, "FR">>,
      <<<<"F", "R">>, "FR">>,
      <<<<"R", "eacute", "p", "u", "b", "l", "i", "q", "u", "e", " ", "f", "r", "a", "n", "ccedil", "a", "i", "s", "e">>, "FR">>,
      <<<<"J", "a", "p", "a", "n">>, "JP">>,
      <<<<"J", "P">>, "JP">>,
      <<<<"N", "i", "p", "p", "o", "n">>, "JP">>,
      <<<<"N", "i", "h", "o", "n">>, "JP">>,
      <<<<"C", "h", "i", "n", "a">>, "CN">>,
      <<<<"C", "N">>, "CN">>,
      <<<<"P", "e", "o", "p", "l", "e", "'", "s", " ", "R", "e", "p", "u", "b", "l", "i", "c", " ", "o", "f", " ", "C", "h", "i", "n", "a">>, "CN">>,
      <<<<"P", "R", "C">>, "CN">>,
      <<<<"I", "n", "d", "i", "a">>, "IN">>,
      <<<<"I", "N">>, "IN">>,
      <<<<"R", "e", "p", "u", "b", "l", "i", "c", " ", "o", "f", " ", "I", "n", "d", "i", "a">>, "IN">>,
      <<<<"A", "u", "s", "t", "r", "a", "l", "i", "a">>, "AU">>,
      <<<<"A", "U">>, "AU">>,
      <<<<"C", "o", "m", "m", "o", "n", "w", "e", "a", "l", "t", "h", " ", "o", "f", " ", "A", "u", "s", "t", "r", "a", "l", "i", "a">>, "AU">>,
      <<<<"B", "r", "a", "z", "i", "l">>, "BR">>,
      <<<<"B", "R">>, "BR">>,
      <<<<"B", "r", "a", "s", "i", "l">>, "BR">>,
      <<<<"F", "e", "d", "e", "r", "a", "t", "i", "v", "e", " ", "R", "e", "p", "u", "b", "l", "i", "c", " ", "o", "f", " ", "B", "r", "a", "z", "i", "l">>, "BR">>,
      <<<<"I", "t", "a", "l", "y">>, "IT">>,
      <<<<"I", "T">>, "IT">>,
      <<<<"I", "t", "a", "l", "i", "a">>, "IT">>,
      <<<<"S", "p", "a", "i", "n">>, "ES">>,
      <<<<"E", "S">>, "ES">>,
      <<<<"E", "s", "p", "a", "ntilde", "a">>, "ES">>,
      <<<<"N", "e", "t", "h", "e", "r", "l", "a", "n", "d", "s">>, "NL">>,
      <<<<"N", "L">>, "NL">>,
      <<<<"H", "o", "l", "l", "a", "n", "d">>, "NL">>,
      <<<<"S", "w", "i", "t", "z", "e", "r", "l", "a", "n", "d">>, "CH">>,
      <<<<"C", "H">>, "CH">>,
      <<<<"S", "c", "h", "w", "e", "i", "z">>, "CH">>,
      <<<<"S", "u", "i", "s", "s", "e">>, "CH">>,
      <<<<"S", "w", "e", "d", "e", "n">>, "SE">>,
      <<<<"S", "E">>, "SE">>,
      <<<<"S", "v", "e", "r", "i", "g", "e">>, "SE">>,
      <<<<"S", "o", "u", "t", "h", " ", "K", "o", "r", "e", "a">>, "KR">>,
      <<<<"K", "R">>, "KR">>,
      <<<<"K", "o", "r", "e", "a">>, "KR">>,
      <<<<"R", "e", "p", "u", "b", "l", "i", "c", " ", "o", "f", " ", "K", "o", "r", "e", "a">>, "KR">>>>

\* The partial matches of iso2, in the order of the code.
CountryAliases ==
    <<<<<<"u", "n", "i", "t", "e", "d", " ", "s", "t", "a", "t", "e", "s">>, "US">>,
      <<<<"a", "m", "e", "r", "i", "c", "a">>, "US">>,
      <<<<"u", "n", "i", "t", "e", "d", " ", "k", "i", "n", "g", "d", "o", "m">>, "GB">>,
      <<<<"b", "r", "i", "t", "a", "i", "n">>, "GB">>,
      <<<<"g", "e", "r", "m", "a", "n", "y">>, "DE">>,
      <<<<"d", "e", "u", "t", "s", "c", "h", "l", "a", "n", "d">>, "DE">>>>

\* The case-insensitive loop is missing.
Iso2_ExactOnly(country_raw) ==
    LET country_clean == Strip(CleanString(country_raw))
        country_lower == LowerText(country_clean)
        exact == {i \in DOMAIN COUNTRY_MAP : COUNTRY_MAP[i][1] = country_clean}
        any_case == {i \in DOMAIN COUNTRY_MAP : LowerText(COUNTRY_MAP[i][1]) = country_lower}
        partial == {i \in DOMAIN CountryAliases : Contains(country_lower, CountryAliases[i][1])}
        FirstItem(table, hits) ==
            IF hits = {} THEN None ELSE table[CHOOSE i \in hits : \A j \in hits : i <= j][2]
    IN  IF country_clean = <<>> THEN None
        ELSE IF FirstItem(COUNTRY_MAP, exact) # None THEN FirstItem(COUNTRY_MAP, exact)
        ELSE FirstItem(CountryAliases, partial)

Iso2(country_raw) ==
    LET country_clean == Strip(CleanString(country_raw))
        country_lower == LowerText(country_clean)
        exact == {i \in DOMAIN COUNTRY_MAP : COUNTRY_MAP[i][1] = country_clean}
        any_case == {i \in DOMAIN COUNTRY_MAP : LowerText(COUNTRY_MAP[i][1]) = country_lower}
        partial == {i \in DOMAIN CountryAliases : Contains(country_lower, CountryAliases[i][1])}
        FirstItem(table, hits) ==
            IF hits = {} THEN None ELSE table[CHOOSE i \in hits : \A j \in hits : i <= j][2]
    IN  IF country_clean = <<>> THEN None
        ELSE IF FirstItem(COUNTRY_MAP, exact) # None THEN FirstItem(COUNTRY_MAP, exact)
        ELSE IF FirstItem(COUNTRY_MAP, any_case) # None THEN FirstItem(COUNTRY_MAP, any_case)
        ELSE FirstItem(CountryAliases, partial)

\* ------------------------------------------------------ calls of normalizers
\* The arguments of the calls: the status cells of the legacy files; the
\* class and name texts of at most MaxLen characters; phones of at most
\* MaxDigits repeated digits, bare, dashed and prefixed; dates of the two
\* legacy forms over the years around the accepted range, the sentinels and
\* texts that are no date; every key of COUNTRY_MAP in its own, lower, upper
\* and swapped case and padded, and texts that are no key.
Arguments(fn) ==
    LET Texts(alphabet) == UNION {[1..n -> alphabet] : n \in 0..MaxLen}
        Repeat(c, n) == [i \in 1..n |-> c]
        Dashed(c) == Repeat(c, 3) \o <<"-">> \o Repeat(c, 3) \o <<"-">> \o Repeat(c, 4)
        prefixes == {<<>>, <<"1">>, <<"+", "1", " ">>, <<" ">>}
        years == {<<"1", "8", "9", "9">>, <<"1", "9", "0", "0">>, <<"2", "0", "2", "4">>,
                  <<"2", "0", "5", "0">>, <<"2", "0", "5", "1">>}
        months == {<<"0", "1">>, <<"1", "2">>}
        days == {<<"0", "1">>, <<"0", "5">>, <<"3", "1">>}
        iso == {y \o <<"-">> \o m \o <<"-">> \o d : y \in years, m \in months, d \in days}
        us == {m \o <<"/">> \o d \o <<"/">> \o y : y \in years, m \in months, d \in days}
        UpperText(s) == [i \in 1..Len(s) |-> UpperChar(s[i])]
        SwapCase(s) ==
            [i \in 1..Len(s) |->
                IF s[i] = UpperChar(s[i]) THEN LowerChar(s[i]) ELSE UpperChar(s[i])]
    IN  CASE fn \in {"transform_patents", "transform_trademarks"} ->
               {"granted", "Granted", "registered", "Issued", "pending", "Pending", "", NaN}
          [] fn = "parse_classes" -> Texts({"4", "5", "0", ",", ";", " ", "x", "sup2"})
          [] fn = "split_name" -> Texts({"s", "M", ",", " "})
          [] fn = "parse_phone" ->
               {p \o Repeat(c, n) : p \in prefixes, c \in {"0", "5"}, n \in 0..MaxDigits}
                   \cup {p \o Dashed(c) : p \in prefixes, c \in {"0", "5"}}
                   \cup {<<"n", "/", "a">>, <<"x", "5", "5", "5">>}
          [] fn = "to_date" ->
               iso \cup us \cup bad_dates \cup {<<" ">> \o t \o <<" ">> : t \in iso}
                   \cup {<<>>, <<" ">>, <<"a", "b", "c">>, <<"t", "b", "d">>}
          [] fn = "iso2" ->
               UNION {{k, LowerText(k), UpperText(k), SwapCase(k), <<" ">> \o k \o <<" ", " ">>} :
                      k \in {COUNTRY_MAP[i][1] : i \in DOMAIN COUNTRY_MAP}}
                   \cup {<<>>, <<" ">>, <<"n", "/", "a">>, <<"M", "e", "x", "i", "c", "o">>,
                         <<"A", "t", "l", "a", "n", "t", "i", "s">>,
                         <<"S", "o", "u", "t", "h", " ", "A", "m", "e", "r", "i", "c", "a">>,
                         <<"W", "e", "s", "t", " ", "G", "e", "r", "m", "a", "n", "y">>,
                         <<"B", "r", "i", "t", "i", "s", "h", " ", "I", "s", "l", "e", "s">>}

NormInit ==
    /\ inp = [r \in Runs |-> NoInput]
    /\ proc = [r \in Runs |-> IdleProc]
    /\ db = EmptyDb
    /\ migration_runs = <<>>
    /\ migration_row_counts = <<>>
    /\ conn = NoConn
    /\ clock = 0
    /\ dry = DryIdle
    /\ vld = VldIdle
    /\ \E fn \in {"transform_patents", "transform_trademarks", "parse_classes", "split_name",
                 "parse_phone", "to_date", "iso2"} :
       \E arg \in Arguments(fn) :
          nz = [pc |-> "ready", fn |-> fn, arg |-> arg, out |-> <<>>]

\* transform_patents and transform_trademarks: the status column of a row.
TransformStatus ==
    /\ nz.pc = "ready"
    /\ nz.fn \in {"transform_patents", "transform_trademarks"}
    /\ nz' = [nz EXCEPT !.pc = "returned", !.out = status_column(nz.arg)]
    /\ UNCHANGED <<inp, proc, db, migration_runs, migration_row_counts, conn, clock, dry, vld>>

CallParseClasses ==
    /\ nz.pc = "ready"
    /\ nz.fn = "parse_classes"
    /\ IF ParseClassesRaises(nz.arg)
       THEN nz' = [nz EXCEPT !.pc = "raised"]
       ELSE nz' = [nz EXCEPT !.pc = "returned", !.out = ParseClasses(nz.arg)]
    /\ UNCHANGED <<inp, proc, db, migration_runs, migration_row_counts, conn, clock, dry, vld>>

CallSplitName ==
    /\ nz.pc = "ready"
    /\ nz.fn = "split_name"
    /\ nz' = [nz EXCEPT !.pc = "returned", !.out = SplitName(nz.arg)]
    /\ UNCHANGED <<inp, proc, db, migration_runs, migration_row_counts, conn, clock, dry, vld>>

CallParsePhone ==
    /\ nz.pc = "ready"
    /\ nz.fn = "parse_phone"
    /\ nz' = [nz EXCEPT !.pc = "returned", !.out = ParsePhone(nz.arg)]
    /\ UNCHANGED <<inp, proc, db, migration_runs, migration_row_counts, conn, clock, dry, vld>>

CallToDate ==
    /\ nz.pc = "ready"
    /\ nz.fn = "to_date"
    /\ nz' = [nz EXCEPT !.pc = "returned", !.out = ToDate(nz.arg)]
    /\ UNCHANGED <<inp, proc, db, migration_runs, migration_row_counts, conn, clock, dry, vld>>

CallIso2 ==
    /\ nz.pc = "ready"
    /\ nz.fn = "iso2"
    /\ nz' = [nz EXCEPT !.pc = "returned", !.out = Iso2(nz.arg)]
    /\ UNCHANGED <<inp, proc, db, migration_runs, migration_row_counts, conn, clock, dry, vld>>

NormNext ==
    \/ TransformStatus
    \/ CallParseClasses
    \/ CallSplitName
    \/ CallParsePhone
    \/ CallToDate
    \/ CallIso2

NormSpec == NormInit /\ [][NormNext]_vars

\* ================================================================ claims
RunIds == 1..Len(migration_runs)

CountRows == {migration_row_counts[i] : i \in 1..Len(migration_row_counts)}

\* Run r started on a store that an earlier, finished run had loaded from
\* the same files.
Preloaded(r) ==
    \E r0 \in RunIds :
        /\ r0 # r
        /\ migration_runs[r0].status = "success"
        /\ migration_runs[r0].finished_at < migration_runs[r].started_at
        /\ inp[r0] = inp[r]

Keys(table) == {t.row.external_ref : t \in table}

\* C1: a run on a store already loaded from the same unchanged input
\* records inserted = 0 for every table.
C1_RerunRecordsZeroInserted ==
    \A c \in CountRows : Preloaded(c.run_id) => c.inserted = 0

UniqueRefs == \A t \in Tables : \A x, y \in db[t] : x.row.external_ref = y.row.external_ref => x = y

RerunKeepsSize ==
    \A r \in RunIds : Preloaded(r) /\ conn.owner = r =>
        \A t \in Tables : Cardinality(db'[t]) = Cardinality(db[t])

AllFilesNonEmpty(input) ==
    /\ Len(input.clients) > 0
    /\ Len(input.patents) > 0
    /\ Len(input.trademarks) > 0
    /\ Len(input.deadlines) > 0

HasCount(r, t) == \E c \in CountRows : c.run_id = r /\ c.table_name = t

\* C3: a started run over four present, non-empty files that is not aborted
\* from outside ends with status success and a finish timestamp, and success
\* is set only after all four batches were upserted.
C3_StartedRunSucceeds ==
    \A r \in RunIds :
        /\ (AllFilesNonEmpty(inp[r]) /\ proc[r].pc \in {"done", "raised"}) =>
                /\ migration_runs[r].status = "success"
                /\ migration_runs[r].finished_at # NULL
        /\ migration_runs[r].status = "success" => \A t \in Tables : HasCount(r, t)

StatusOk ==
    \A r \in RunIds :
        /\ migration_runs[r].status \in {"running", "success"}
        /\ proc[r].pc \in {"killed", "rolled_back", "raised"} =>
                migration_runs[r].status = "running"

StatusStep ==
    /\ Len(migration_runs') >= Len(migration_runs)
    /\ \A r \in RunIds :
        \/ migration_runs'[r].status = migration_runs[r].status
        \/ migration_runs[r].status = "running" /\ migration_runs'[r].status = "success"

\* C4: a run's status is running or success, never failed; it only moves
\* from running to success; after an exception or abort it stays running.
C4_StatusRunningOrSuccess == []StatusOk /\ [][StatusStep]_vars

\* One run raised in a transform, one was aborted in a transaction, both
\* are still recorded as running.
C4_Witness ==
    \E r, a \in RunIds :
        /\ proc[r].pc = "raised"
        /\ proc[a].pc = "rolled_back"
        /\ migration_runs[r].status = "running"
        /\ migration_runs[a].status = "running"

BatchLoaded(r, t, table) ==
    \A i \in 1..Len(Batch(r, t)) : Batch(r, t)[i].external_ref \in Keys(table)

DependencyOrder(r) ==
    /\ proc[r].pc \in {"patents", "trademarks", "read_assets"} =>
            /\ HasCount(r, "clients")
            /\ BatchLoaded(r, "clients", db["clients"])
    /\ proc[r].pc \in {"deadlines", "mark_success"} =>
            /\ HasCount(r, "patents") /\ HasCount(r, "trademarks")
            /\ BatchLoaded(r, "patents", db["patents"])
            /\ BatchLoaded(r, "trademarks", db["trademarks"])

MapsReadAfterWrite(r) ==
    /\ proc[r].pc \in {"tx_assets", "patents", "trademarks", "read_assets"} =>
            \A i \in 1..Len(Batch(r, "clients")) :
                Batch(r, "clients")[i].external_ref \in DOMAIN proc[r].client_map
    /\ proc[r].pc \in {"tx_deadlines", "deadlines", "mark_success"} =>
            /\ \A i \in 1..Len(Batch(r, "patents")) :
                    Batch(r, "patents")[i].external_ref \in DOMAIN proc[r].patent_map
            /\ \A i \in 1..Len(Batch(r, "trademarks")) :
                    Batch(r, "trademarks")[i].external_ref \in DOMAIN proc[r].tm_map

\* C5: within one run the loads happen in dependency order: control is in
\* the patents/trademarks block only after the run's clients batch was
\* committed, in the deadlines block only after its patents and trademarks
\* batches were committed, and an identity map is read only once the
\* producing batch is written.
C5_DependencyOrder == \A r \in Runs : DependencyOrder(r) /\ MapsReadAfterWrite(r)

\* A run is writing its deadlines batch.
C5_Witness ==
    \E r \in RunIds : proc[r].pc = "deadlines" /\ proc[r].i = Len(Batch(r, "deadlines"))

InputKeys(input, t) ==
    CASE t = "clients"    -> {Strip(input.clients[i].client_id) : i \in 1..Len(input.clients)}
      [] t = "patents"    -> {Strip(input.patents[i].patent_id) : i \in 1..Len(input.patents)}
      [] t = "trademarks" -> {Strip(input.trademarks[i].tm_id) : i \in 1..Len(input.trademarks)}
      [] t = "deadlines"  -> {Strip(input.deadlines[i].dl_id) : i \in 1..Len(input.deadlines)}

AllOrNothing ==
    Len(migration_runs) = 1 =>
        \A t \in Tables : db[t] = {} \/ Keys(db[t]) = InputKeys(inp[1], t)

WholeBatchStep ==
    \A t \in Tables : db'[t] # db[t] =>
        \E r \in RunIds :
            /\ conn.owner = r
            /\ proc'[r].pc \notin {"killed", "rolled_back", "raised"}
            /\ proc[r].pc \in {"read_clients", "read_assets", "mark_success"}
            /\ BatchLoaded(r, t, db'[t])

\* C6: a batch is never partially applied: a committed table changes only
\* when the transaction that holds the whole batch commits, an abort changes
\* no committed table, and after a first run that was aborted anywhere every
\* table is either empty or holds every key of that run's file.
C6_BatchAtomic == []AllOrNothing /\ [][WholeBatchStep]_vars

\* A run was aborted inside a transaction after its clients batch was
\* committed: the later tables are untouched.
C6_Witness ==
    /\ Len(migration_runs) = 1
    /\ proc[1].pc = "rolled_back"
    /\ db["clients"] # {}
    /\ db["patents"] = {}

NoRef == <<>>

FirstIdx(seq, key(_), k) == CHOOSE i \in 1..Len(seq) :
    key(seq[i]) = k /\ \A j \in 1..(i - 1) : key(seq[j]) # k

LastIdx(seq, key(_), k) == CHOOSE i \in 1..Len(seq) :
    key(seq[i]) = k /\ \A j \in (i + 1)..Len(seq) : key(seq[j]) # k

ClientKey(row) == Strip(row.client_id)

PatentKey(row) == Strip(row.patent_id)

TmKey(row) == Strip(row.tm_id)

DlKey(row) == Strip(row.dl_id)

RefIn(k, keys) == IF k \in keys THEN k ELSE NoRef

Expected(input) ==
    [clients |->
        {[external_ref |-> k,
          payload |-> input.clients[FirstIdx(input.clients, ClientKey, k)].payload] :
            k \in InputKeys(input, "clients")},
     patents |->
        {LET row == input.patents[LastIdx(input.patents, PatentKey, k)] IN
            [external_ref |-> k, payload |-> row.payload,
             client |-> RefIn(Strip(row.client_id), InputKeys(input, "clients"))] :
            k \in InputKeys(input, "patents")},
     trademarks |->
        {LET row == input.trademarks[LastIdx(input.trademarks, TmKey, k)] IN
            [external_ref |-> k, payload |-> row.payload,
             client |-> RefIn(Strip(row.client_id), InputKeys(input, "clients"))] :
            k \in InputKeys(input, "trademarks")},
     deadlines |->
        {LET row == input.deadlines[LastIdx(input.deadlines, DlKey, k)]
             tbl == IF row.related_type \in {"patent", "Patent"} THEN "patents" ELSE "trademarks" IN
            [external_ref |-> k, payload |-> row.payload, related_table |-> tbl,
             related |-> RefIn(Strip(row.related_id), InputKeys(input, tbl))] :
            k \in InputKeys(input, "deadlines")}]

\* The external_ref of the row of `table` with surrogate id `id`.
RefOf(table, id) ==
    IF \E t \in table : t.id = id
    THEN (CHOOSE t \in table : t.id = id).row.external_ref
    ELSE NoRef

Content ==
    [clients |->
        {[external_ref |-> t.row.external_ref, payload |-> t.row.payload] : t \in db["clients"]},
     patents |->
        {[external_ref |-> t.row.external_ref, payload |-> t.row.payload,
          client |-> RefOf(db["clients"], t.row.client_id)] : t \in db["patents"]},
     trademarks |->
        {[external_ref |-> t.row.external_ref, payload |-> t.row.payload,
          client |-> RefOf(db["clients"], t.row.client_id)] : t \in db["trademarks"]},
     deadlines |->
        {[external_ref |-> t.row.external_ref, payload |-> t.row.payload,
          related_table |-> t.row.related_table,
          related |-> RefOf(db[t.row.related_table], t.row.related_id)] : t \in db["deadlines"]}]

SameInputOnly(r) == \A q \in RunIds : inp[q] = inp[r]

DryRefs(tf) == {tf[i].external_ref : i \in 1..Len(tf)}

UniqueIn(tf) == \A i, j \in 1..Len(tf) : tf[i].external_ref = tf[j].external_ref => i = j

\* C8: external_ref is unique within the transformed output of every
\* entity type.
C8_ExternalRefUnique ==
    /\ UniqueIn(dry.tf_clients)
    /\ UniqueIn(dry.tf_patents)
    /\ UniqueIn(dry.tf_tms)
    /\ UniqueIn(dry.tf_deadlines)

\* C9: of several input rows with the same external_ref the transformed
\* output keeps the values of the last one.
C9_LastWriteWins ==
    dry.pc # "clients" =>
        \A k \in InputKeys(dry.inp, "clients") :
            \E i \in 1..Len(dry.tf_clients) :
                /\ dry.tf_clients[i].external_ref = k
                /\ dry.tf_clients[i].payload =
                        dry.inp.clients[LastIdx(dry.inp.clients, ClientKey, k)].payload

\* The i-th distinct key of tf, in order of first occurrence, is mapped to i.
SequentialBijection(map, tf) ==
    /\ DOMAIN map = DryRefs(tf)
    /\ \A k \in DOMAIN map :
            map[k] = Cardinality({tf[j].external_ref : j \in 1..FirstIdx(tf, LAMBDA row : row.external_ref, k)})

\* C10: in a dry run each identity map is a bijection between the entity's
\* distinct external_refs and 1..N, assigned sequentially in input order.
C10_SequentialIds ==
    /\ dry.pc \notin {"off", "clients"} => SequentialBijection(dry.client_map, dry.tf_clients)
    /\ dry.pc \notin {"off", "clients", "assets"} =>
            /\ SequentialBijection(dry.patent_map, dry.tf_patents)
            /\ SequentialBijection(dry.tm_map, dry.tf_tms)

\* C11: every patent and trademark input row yields an output row, in
\* order, whose client_id is the id the client map gives to the row's
\* (stripped) client reference, and null when the map has no such key.
ClientResolved(tf, df, map) ==
    /\ Len(tf) = Len(df)
    /\ \A i \in 1..Len(df) :
        tf[i].client_id =
            (IF Strip(df[i].client_id) \in DOMAIN map THEN map[Strip(df[i].client_id)] ELSE NULL)

C11_DanglingClientKept ==
    dry.pc \in {"deadlines", "write", "done", "raised"} =>
        /\ ClientResolved(dry.tf_patents, dry.inp.patents, dry.client_map)
        /\ ClientResolved(dry.tf_tms, dry.inp.trademarks, dry.client_map)
        /\ \A i \in 1..Len(dry.inp.patents) :
                dry.tf_patents[i].external_ref = Strip(dry.inp.patents[i].patent_id)

\* The patents output holds a row with a null client next to a resolved one.
C11_Witness ==
    /\ dry.pc = "done"
    /\ \E i, j \in 1..Len(dry.tf_patents) :
            dry.tf_patents[i].client_id = NULL /\ dry.tf_patents[j].client_id # NULL

\* C12: every deadline input row yields one output row whose related_table
\* is 'patents' exactly when the lower-cased related_type is 'patent' and
\* 'trademarks' otherwise, and whose related_id is what the map of that
\* table gives to the stripped related_id, or null.
DeadlineResolved(tf, df, pmap, tmap) ==
    /\ Len(tf) = Len(df)
    /\ \A i \in 1..Len(df) :
        LET isPatent == df[i].related_type \in {"patent", "Patent"}
            map == IF isPatent THEN pmap ELSE tmap
            rid == Strip(df[i].related_id) IN
        /\ tf[i].related_table = (IF isPatent THEN "patents" ELSE "trademarks")
        /\ tf[i].related_id = (IF rid \in DOMAIN map THEN map[rid] ELSE NULL)

C12_DeadlineResolution ==
    dry.pc \in {"write", "done", "raised"} =>
        DeadlineResolved(dry.tf_deadlines, dry.inp.deadlines, dry.patent_map, dry.tm_map)

\* ------------------------------------------------- claims on validation
Done == vld.pc = "done"

Result(e) == vld.results[e]

Succeeded == {e \in DOMAIN vld.results : Result(e).status = "success"}

ReportComplete ==
    /\ DOMAIN vld.results = EntityTypes
    /\ vld.summary.results = vld.results
    /\ vld.summary.entities_validated = Cardinality(EntityTypes)
    /\ report_file(vld.now) \in DOMAIN vld.reports
    /\ vld.reports[report_file(vld.now)] = vld.summary

AbsentIsError ==
    \A e \in EntityTypes :
        ~vld.fs[e].exists =>
            /\ Result(e).status = "error"
            /\ Result(e).quality_score = 0
            /\ ~Result(e).has_overall

\* C13 as stated: whatever subset of the four files is absent, the report
\* that validate_all returns and persists has exactly one entry per entity,
\* an absent file gives status error and score 0, and every present file
\* gives status success.
C13_PresentFileSucceeds ==
    Done =>
        /\ ReportComplete
        /\ AbsentIsError
        /\ \A e \in EntityTypes : vld.fs[e].exists => Result(e).status = "success"

\* C13: whatever subset of the four files is absent, the report that
\* validate_all returns and persists has exactly one entry per entity, an
\* absent file gives status error and score 0, and a present file gives
\* status success unless an exception is raised while it is validated, in
\* which case its entry is an error entry with score 0 as well.
C13_AbsentFilesReport ==
    Done =>
        /\ ReportComplete
        /\ AbsentIsError
        /\ \A e \in EntityTypes :
            vld.fs[e].exists =>
                IF ValidationRaises(vld.fs, e)
                THEN Result(e).status = "error" /\ Result(e).quality_score = 0
                ELSE Result(e).status = "success" /\ Result(e).record_count = Len(vld.fs[e].rows)

\* A report over a directory with an absent file next to a validated one.
C13_Witness ==
    /\ Done
    /\ \E e \in EntityTypes : ~vld.fs[e].exists /\ Result(e).status = "error"
    /\ \E e \in EntityTypes : vld.fs[e].exists /\ Result(e).status = "success"

\* C14: an exception raised while one entity is validated leaves the other
\* three results what they would be had that entity's file been valid.
RaisedIn(e) == vld.fs[e].exists /\ Result(e).status = "error"

C14_FailureIsolation ==
    Done =>
        \A e \in EntityTypes :
            RaisedIn(e) =>
                \A o \in EntityTypes \ {e} :
                    Result(o) = validate_file([vld.fs EXCEPT ![e] = GoodFile(e)], o)

\* C15: the system score is the mean, rounded to two decimals, of the
\* overall scores of exactly the entities with status success, one with
\* overall score 0 included, and 0 when no entity succeeded.
OverallOf(e) == Result(e).overall_score

C15_SystemScoreIsMean ==
    Done =>
        vld.summary.system_quality_score =
            (IF Succeeded = {} THEN 0
             ELSE RoundDiv(SumFn([e \in Succeeded |-> OverallOf(e)]), Cardinality(Succeeded)))

\* The business score as the text gives it: max(0, 100 - 5 * errors).
BusinessOf(e) ==
    LET b == Points - PerError * Len(Result(e).business_errors)
    IN  IF b > 0 THEN b ELSE 0

InRange(x, hi) == 0 <= x /\ x <= hi

ScoresInRange(e) ==
    /\ InRange(Result(e).quality_score, Points * Cents)
    /\ InRange(BusinessOf(e), Points)
    /\ InRange(OverallOf(e), Points * Cents)

\* C16 as stated: the overall score of a validated entity is exactly
\* quality * 0.7 + business * 0.3, and the three scores lie in [0, 100].
C16_OverallIsWeightedSum ==
    \A e \in Succeeded :
        /\ Tenths * OverallOf(e) =
                QualityWeight * Result(e).quality_score + BusinessWeight * BusinessOf(e) * Cents
        /\ ScoresInRange(e)

\* C16: the overall score of a validated entity is quality * 0.7 +
\* business * 0.3 rounded to two decimals, with business =
\* max(0, 100 - 5 * errors), and the three scores lie in [0, 100].
C16_OverallIsRoundedWeightedSum ==
    \A e \in Succeeded :
        /\ OverallOf(e) =
                RoundDiv(QualityWeight * Result(e).quality_score
                            + BusinessWeight * BusinessOf(e) * Cents, Tenths)
        /\ ScoresInRange(e)

\* A validated entity with business errors whose weighted sum has a third
\* decimal.
C16_Witness ==
    \E e \in Succeeded :
        /\ Result(e).business_errors # <<>>
        /\ (QualityWeight * Result(e).quality_score) % Tenths # 0

\* C17: appending to any dataset, the empty one included, one row with an
\* empty cell in a critical field of its entity type gives a quality score
\* no greater than the dataset's.
LacksCriticalField(row, e) ==
    \E f \in critical_fields(e) \cap vld.fs[e].columns : row[f] = NaN

AppendRow(file, row) == [file EXCEPT !.rows = Append(@, row)]

QualityAfterAppend(e, row) ==
    validate_data_quality(AppendRow(vld.fs[e], row), e).quality_score

C17_QualityMonotone ==
    \A e \in Succeeded :
        \A row \in RowKinds(e) :
            LacksCriticalField(row, e) =>
                QualityAfterAppend(e, row) <= Result(e).quality_metrics.quality_score

\* A scored dataset that a row with a missing critical field brings down,
\* and the empty dataset scored 0.
C17_Witness ==
    /\ \E e \in Succeeded : \E row \in RowKinds(e) :
            /\ LacksCriticalField(row, e)
            /\ QualityAfterAppend(e, row) < Result(e).quality_metrics.quality_score
            /\ QualityAfterAppend(e, row) > 0

\* C18: with clients.csv read, every patent row whose client_id is not a
\* client_id of clients.csv has exactly one referential finding and every
\* other row none, and the quality, business and overall scores of the
\* patents entity are those it has against a clients.csv that holds every
\* client_id the patents refer to.
ClientIds == {vld.fs.clients.rows[j].client_id : j \in 1..Len(vld.fs.clients.rows)}

FindingsFor(e, i) ==
    {k \in 1..Len(Result(e).referential_errors) : Result(e).referential_errors[k].row = i}

AllClientsKnown ==
    [vld.fs EXCEPT !.clients =
        CsvFile(ClientCols, [i \in 1..Len(vld.fs.patents.rows) |->
                                VClientRow(vld.fs.patents.rows[i].client_id, "Acme", "a@b.co")])]

Scores(result) ==
    <<result.quality_score, business_score(Len(result.business_errors)), result.overall_score>>

C18_DanglingClientFinding ==
    ("patents" \in Succeeded /\ vld.fs.clients.exists) =>
        /\ \A i \in 1..Len(vld.fs.patents.rows) :
                Cardinality(FindingsFor("patents", i)) =
                    (IF vld.fs.patents.rows[i].client_id \in ClientIds THEN 0 ELSE 1)
        /\ Scores(Result("patents")) = Scores(validate_file(AllClientsKnown, "patents"))

\* Patents with a finding for one row and none for another.
C18_Witness ==
    /\ "patents" \in Succeeded
    /\ vld.fs.clients.exists
    /\ \E i, j \in 1..Len(vld.fs.patents.rows) :
            /\ vld.fs.patents.rows[i].client_id = "C"
            /\ FindingsFor("patents", i) # {}
            /\ vld.fs.patents.rows[j].client_id \in ClientIds
            /\ FindingsFor("patents", j) = {}

\* C19: a deadline whose related_id is no patent_id of patents.csv (when
\* its related_type is patent) or no tm_id of trademarks.csv (otherwise)
\* has a referential finding in the deadlines entry of the report.
KnownIds(file, key) ==
    IF file.readable /\ key \in file.columns
    THEN {file.rows[j][key] : j \in 1..Len(file.rows)}
    ELSE {}

Resolves(row) ==
    IF Lower(row.related_type) = "patent"
    THEN row.related_id \in KnownIds(vld.fs.patents, "patent_id")
    ELSE row.related_id \in KnownIds(vld.fs.trademarks, "tm_id")

C19_DanglingRelatedFinding ==
    "deadlines" \in Succeeded =>
        \A i \in 1..Len(vld.fs.deadlines.rows) :
            ~Resolves(vld.fs.deadlines.rows[i]) => FindingsFor("deadlines", i) # {}

\* C20: when k rows of clients.csv repeat the client_id of an earlier row,
\* the clients entry reports duplicate_records = k, and a quality score
\* below 100 when k >= 1.
C20_DuplicateKeysCounted ==
    "clients" \in Succeeded =>
        LET k == duplicated(vld.fs.clients.rows, "client_id") IN
        /\ Result("clients").quality_metrics.duplicate_records = k
        /\ k >= 1 => Result("clients").quality_score < Points * Cents

\* C21: the invalid_emails of the clients entry is the number of rows whose
\* email is non-empty and not accepted by parse_email; a row with an empty
\* email is counted as a missing critical field and not as an invalid email.
MalformedEmails ==
    {i \in 1..Len(vld.fs.clients.rows) :
        /\ vld.fs.clients.rows[i].email # NaN
        /\ parse_email(vld.fs.clients.rows[i].email) = ""}

C21_InvalidEmailsAreMalformed ==
    ("clients" \in Succeeded /\ vld.fs.clients.rows # <<>>) =>
        Result("clients").quality_metrics.invalid_emails = Cardinality(MalformedEmails)

\* C29: under any interleaving of runs, a run with status success has
\* exactly one migration_row_counts row for each of the four tables, no run
\* has two rows for one table, and a run has a row for a table only if its
\* upsert of that table is committed.
CountIdx(r, t) ==
    {i \in 1..Len(migration_row_counts) :
        migration_row_counts[i].run_id = r /\ migration_row_counts[i].table_name = t}

DryClientMap(input) == EnumerateMap(transform_clients(input.clients))

Dependents(input, client_map) ==
    transform_patents(input.patents, client_map)
        \o transform_trademarks(input.trademarks, client_map)

SameResolution(a, b) ==
    /\ Len(a) = Len(b)
    /\ \A i \in 1..Len(a) : (a[i].client_id = NULL) <=> (b[i].client_id = NULL)
    /\ \A i, j \in 1..Len(a) :
            (a[i].client_id = a[j].client_id) <=> (b[i].client_id = b[j].client_id)

C30_ModeEquivalence ==
    (Len(migration_runs) = 1 /\ proc[1].pc \in {"patents", "trademarks", "read_assets"}) =>
        SameResolution(Batch(1, "patents") \o Batch(1, "trademarks"),
                       Dependents(inp[1], DryClientMap(inp[1])))

\* The loaded run resolves one dependent row and leaves another null.
C30_Witness ==
    /\ Len(migration_runs) = 1
    /\ proc[1].pc = "trademarks"
    /\ \E i, j \in 1..Len(Batch(1, "patents")) :
            /\ Batch(1, "patents")[i].client_id = NULL
            /\ Batch(1, "patents")[j].client_id # NULL

\* C22: every validate_all run adds one report artifact and no later run,
\* one within the same clock second included, overwrites an artifact that
\* an earlier run has persisted: there are as many artifacts as runs that
\* have saved, and a step leaves every existing artifact as it is.
ArtifactsKept ==
    \A name \in DOMAIN vld.reports :
        name \in DOMAIN vld'.reports /\ vld'.reports[name] = vld.reports[name]

C22_ReportsImmutable ==
    /\ [](Cardinality(DOMAIN vld.reports) = vld.saved)
    /\ [][ArtifactsKept]_vars

\* ---- normalizers (NormSpec)
Returned(fn) == nz.fn = fn /\ nz.pc = "returned"

\* C23: every row transformed for patents or trademarks carries a status of
\* the canonical vocabulary of its entity type; no raw legacy status text
\* leaves the transform.
C23_StatusCanonical ==
    nz.pc = "returned" /\ nz.fn \in {"transform_patents", "transform_trademarks"}
        => nz.out \in CanonicalStatuses(nz.fn)

StrictlyIncreasing(seq) == \A i \in 1..(Len(seq) - 1) : seq[i] < seq[i + 1]

Elements(seq) == {seq[i] : i \in DOMAIN seq}

\* The integers of 1..45 written as digit runs in the cleaned text.
DigitRunClasses(text) ==
    {n \in {IntOf(run) : run \in MaximalRuns(CleanString(text), DecimalDigits)} : n \in 1..MaxClass}

\* C24: for every input parse_classes returns a strictly increasing list
\* whose elements are exactly the integers of 1..45 that occur as digit runs
\* between the separators of the cleaned input; a blank input gives the
\* empty list.
C24_ParseClassesTotal ==
    nz.fn = "parse_classes" /\ nz.pc # "ready"
        => /\ nz.pc = "returned"
           /\ StrictlyIncreasing(nz.out)
           /\ Elements(nz.out) = DigitRunClasses(nz.arg)
           /\ CleanString(nz.arg) = <<>> => nz.out = <<>>

\* C25: a cleaned name that contains a comma is split at its first comma
\* only: the text before it is the last name, all the text after it the
\* first name, both title-cased; the empty name gives two empty fields.
C25_SplitAtFirstComma ==
    Returned("split_name")
        => LET name_clean == CleanString(nz.arg)
           IN  /\ Contains(name_clean, <<",">>)
                    => nz.out = [first_name |-> Title(Strip(After(name_clean, ","))),
                                 last_name |-> Title(Strip(Before(name_clean, ",")))]
               /\ nz.arg = <<>> => nz.out = [first_name |-> <<>>, last_name |-> <<>>]

Digits(text) == LET IsDecimal(c) == c \in DecimalDigits IN SelectSeq(text, IsDecimal)

\* The format the count of digits of a cleaned phone calls for.
PhoneFormat(phone_clean) ==
    LET d == Digits(phone_clean)
    IN  CASE Len(d) = 10 ->
               <<"(", d[1], d[2], d[3], ")", " ", d[4], d[5], d[6], "-", d[7], d[8], d[9], d[10]>>
          [] Len(d) = 11 /\ d[1] = "1" ->
               <<"+", "1", " ", "(", d[2], d[3], d[4], ")", " ", d[5], d[6], d[7], "-",
                 d[8], d[9], d[10], d[11]>>
          [] Len(d) >= 10 /\ Len(d) # 10 /\ ~(Len(d) = 11 /\ d[1] = "1") -> <<"+">> \o d
          [] OTHER -> phone_clean

\* C26 as stated: the result is the format of the count of digits, for
\* every phone.
C26_PhoneFormats ==
    Returned("parse_phone") => nz.out = PhoneFormat(CleanString(nz.arg))

\* C26: a cleaned phone with exactly 10 digits gives "(AAA) EEE-NNNN", one
\* with 11 digits and a leading 1 gives "+1 (AAA) EEE-NNNN", any other count
\* of at least 10 digits gives "+" and the digits, fewer digits give the
\* cleaned original; a cleaned phone that is a bad-phone sentinel gives the
\* empty text.
C26_PhoneFormatsButSentinels ==
    Returned("parse_phone")
        => LET phone_clean == CleanString(nz.arg)
           IN  nz.out = IF LowerText(phone_clean) \in bad_phones THEN <<>>
                        ELSE PhoneFormat(phone_clean)

C26_Witness ==
    /\ Returned("parse_phone")
    /\ Len(Digits(nz.arg)) = 11
    /\ Digits(nz.arg)[1] = "1"
    /\ SubSeq(nz.out, 1, 4) = <<"+", "1", " ", "(">>

IsIsoInRange(text) == IsIsoForm(text) /\ IntOf(SubSeq(text, 1, 4)) \in MinYear..MaxYear

\* C27: to_date returns null or an ISO YYYY-MM-DD date whose year is in
\* 1900..2050; it returns null for the empty input and for every bad-date
\* sentinel; an ISO date (of that range and no sentinel) is returned
\* unchanged.
C27_ToDateIsoOrNull ==
    Returned("to_date")
        => /\ nz.out = NoText \/ IsIsoInRange(nz.out)
           /\ nz.arg = <<>> \/ nz.arg \in bad_dates => nz.out = NoText
           /\ IsIsoInRange(nz.arg) /\ nz.arg \notin bad_dates => nz.out = nz.arg

C27_Witness ==
    /\ Returned("to_date")
    /\ nz.arg = <<"2", "0", "2", "4", "-", "0", "1", "-", "0", "5">>
    /\ nz.out = nz.arg

CountryKeys == {COUNTRY_MAP[i][1] : i \in DOMAIN COUNTRY_MAP}

CountryCodes == {COUNTRY_MAP[i][2] : i \in DOMAIN COUNTRY_MAP}

MatchesKey(text) == \E k \in CountryKeys : LowerText(k) = LowerText(text)

HasAlias(text) ==
    \E i \in DOMAIN CountryAliases : Contains(LowerText(text), CountryAliases[i][1])

\* C28: for every key of the country table, in any letter case, iso2 returns
\* the code of the key; for an input that (once cleaned) matches no key in
\* any case and holds no alias substring, and for the empty input, it
\* returns null; the result is always null or a code of the table.
C28_Iso2Lookup ==
    Returned("iso2")
        => /\ \A i \in DOMAIN COUNTRY_MAP :
                 LowerText(nz.arg) = LowerText(COUNTRY_MAP[i][1]) => nz.out = COUNTRY_MAP[i][2]
           /\ LET country_clean == Strip(CleanString(nz.arg))
              IN  ~MatchesKey(country_clean) /\ ~HasAlias(country_clean) => nz.out = None
           /\ nz.arg = <<>> => nz.out = None
           /\ nz.out \in CountryCodes \cup {None}

C28_Witness ==
    /\ Returned("iso2")
    /\ nz.arg = <<"c", "a", "n", "a", "d", "a">>
    /\ nz.out = "CA"

====
